---- MODULE Spec2Model ----
(***************************************************************************)
(* Verification model of the eph-channel primitives:                       *)
(*   - BoundedQueue<T,Capacity>  (include/eph/core/queue.hpp)               *)
(*   - RingBuffer<T,N> / SeqLock<T> / SeqLockBuffer<T,N>                    *)
(*     (include/eph/core/ring_buffer.hpp, seq_lock.hpp, seq_lock_buffer.hpp)*)
(*   - SharedMemory<T> (include/eph/core/shared_memory.hpp and              *)
(*     include/eph_channel/shared_memory.hpp)                               *)
(* Every access to a shared location is one step; thread-local work is     *)
(* folded into the adjacent shared access.  Memory is sequentially         *)
(* consistent.                                                             *)
(***************************************************************************)
EXTENDS Integers, Naturals, Sequences, FiniteSets, TLC

VARIABLES
    \* ---- BoundedQueue ----
    head_,          \* consumer_.head_   (atomic)
    tail_,          \* producer_.tail_   (atomic)
    shadow_head_,   \* producer_.shadow_head_ (producer local)
    shadow_tail_,   \* consumer_.shadow_tail_ (consumer local)
    buffer_,        \* buffer_[0 .. Capacity-1]
    p_pc,           \* producer position inside try_produce
    p_tail,         \* producer local `tail`
    p_val,          \* value the producer's writer callback stores
    p_last,         \* history: outcome of the last try_produce decision
    c_pc,           \* consumer position inside try_consume
    c_head,         \* consumer local `head`
    c_out,          \* value the consumer's visitor read
    c_last,         \* history: outcome of the last try_consume decision
    pushed,         \* history: values of the successful produces, in order
    popped,         \* history: values of the successful consumes, in order
    \* ---- RingBuffer / SeqLock / SeqLockBuffer ----
    ringKind,       \* "single" (N = 1), "triple" (N = 3) or "pow2" (N = 2^k)
    seq,            \* slots_[i].seq   (atomic; seq_ when N = 1)
    data_,          \* slots_[i].data_ (two fields a, b; data_ when N = 1)
    writer_index_,  \* writer_index_ / writer_idx_ (writer local)
    global_index_,  \* global_index_ / global_idx_ (atomic)
    w_pc,           \* writer position inside push/write/store
    w_next,         \* writer local `next_idx`
    w_start_seq,    \* writer local `start_seq`
    w_steps,        \* history: steps the writer took in its current write
    writes_done,    \* history: number of completed writes
    r_pc,           \* reader position inside try_read/try_pop_latest/try_load
    r_idx,          \* reader local `idx`
    r_seq1,         \* reader local `seq1`
    r_out,          \* reader's copy of the payload (`out`)
    r_res,          \* history: result of the reader's last finished try read
    r_hist,         \* history: write numbers of the last two successful reads
    r_ovOdd,        \* history: some slot was locked at a moment of the read
    r_ovSame,       \* history: the slot that was read got locked during the read
    r_quiet,        \* history: the writer was idle throughout the read
    r_wd,           \* history: writes_done when the read finished
    seq_max,        \* history: largest value each slot's seq has ever held
    r_clk,          \* history: writer steps seen across the last two reads
    \* ---- SharedMemory ----
    shmKind,        \* "core" or "legacy" implementation
    shmStale,       \* what a killed Owner left under the name before the run
    fs_path,        \* inode the name resolves to (0: no such file)
    ino_size,       \* file size of each inode
    ino_init,       \* Layout::initialized of each inode's segment
    ino_constructed,\* history: the payload of the segment was constructed
    o_pc,           \* Owner position inside its constructor
    o_fd,           \* Owner handle: inode behind fd (0: none)
    o_layout,       \* Owner handle: inode behind layout_ (0: nullptr)
    u_pc,           \* User position inside its constructor
    u_fd,           \* User handle: inode behind fd (0: none)
    u_layout,       \* User handle: inode behind layout_ (0: nullptr)
    u_retries,      \* User local `retries`
    u_err,          \* the error the User constructor threw
    u_attempts,     \* history: User constructions started
    o_owner,        \* Owner handle: is_owner_
    o_state,        \* Owner handle: "none" until constructed, "alive", "dead"
    o_err,          \* the error the Owner constructor threw
    moved,          \* the handle the last move of the Owner handle left behind
    done,           \* history: destructor, unlink, munmap and close calls made
    o_moves,        \* history: moves of the Owner handle
    u_moves,        \* history: moves of the User handle
    u_late,         \* history: the User construction began after the Owner
                    \* handle was destroyed
    u_began,        \* history: o_state when the User construction began
    \* ---- channel layer on the plain RingBuffer ----
    rb,             \* RingBuffer: head_, tail_, buffer_
    snd,            \* the Sender's thread inside one call
    rcv,            \* the Receiver's thread inside one call
    now,            \* std::chrono::steady_clock
    \* ---- further threads and calls ----
    obs,            \* a thread inside BoundedQueue::size()
    eq,             \* a BoundedQueue and a RingBuffer driven by the same calls
    sz,             \* a SharedMemory<T> instantiation and its sizes
    ep,             \* the objects of one endpoint class
    wq,             \* a BoundedQueue whose counters are WordBits wide
    dx              \* a duplex channel: its two queues and the server thread

qvars == << head_, tail_, shadow_head_, shadow_tail_, buffer_, p_pc, p_tail,
            p_val, p_last, c_pc, c_head, c_out, c_last, pushed, popped >>

rvars == << ringKind, seq, data_, writer_index_, global_index_, w_pc, w_next,
            w_start_seq, w_steps, writes_done, r_pc, r_idx, r_seq1, r_out,
            r_res, r_hist, r_ovOdd, r_ovSame, r_quiet, r_wd, seq_max,
            r_clk >>

hvars == << o_owner, o_state, o_err, moved, done, o_moves, u_moves, u_late,
                    u_began >>

svars == << shmKind, shmStale, fs_path, ino_size, ino_init, ino_constructed,
            o_pc, o_fd, o_layout, u_pc, u_fd, u_layout, u_retries, u_err,
            u_attempts, hvars >>

cvars == << rb, snd, rcv, now >>

ovars == << obs, eq, sz, ep >>

dvars == << wq, dx >>

xvars == << cvars, ovars, dvars >>

vars == << qvars, rvars, svars, xvars >>

(***************************************************************************)
(* Bounds of the model                                                     *)
(***************************************************************************)
QLog == 1            \* log2 of the queue Capacity
MaxPush == 4         \* number of successful produces explored
NumValues == 2       \* distinct payload values a producer may push
RLog == 1            \* log2 of the slot count N of the power-of-two ring
MaxWrites == 4       \* number of writes the ring writer performs
MaxAttach == 2       \* User constructions attempted on the name
MaxMoves == 2        \* moves of a SharedMemory handle
MaxTime == 3         \* ticks of the steady clock explored
MaxTimeout == 1      \* largest timeout handed to send
MaxBatch == 3        \* longest range handed to send_batch
MaxObjects == 3      \* endpoint objects of one class
MaxSizeLog == 22     \* log2 of the largest payload size explored
CounterBits == 16    \* bits of size_t in the model
WordBits == 3        \* bits of the counters of the queue that overflows
MaxRequests == 4     \* requests the duplex client sends

Capacity == 2 ^ QLog
mask_ == Capacity - 1
Values == 1 .. NumValues

\* x & y on naturals, bit by bit
RECURSIVE BitAnd(_, _)
BitAnd(x, y) ==
    IF x = 0 \/ y = 0 THEN 0
    ELSE (x % 2) * (y % 2) + 2 * BitAnd(x \div 2, y \div 2)

(***************************************************************************)
(* BoundedQueue                                                            *)
(***************************************************************************)
NoDecision == [ret |-> "none", size |-> 0]

QueueInit ==
    /\ head_ = 0
    /\ tail_ = 0
    /\ shadow_head_ = 0
    /\ shadow_tail_ = 0
    /\ buffer_ = [i \in 0 .. Capacity - 1 |-> 0]
    /\ p_pc = "idle" /\ p_tail = 0 /\ p_val = 0 /\ p_last = NoDecision
    /\ c_pc = "idle" /\ c_head = 0 /\ c_out = 0 /\ c_last = NoDecision
    /\ pushed = << >>
    /\ popped = << >>

\* `tail - head >= Capacity`
IsFull_gt(tail, head) == tail - head > Capacity
IsFull(tail, head) == tail - head >= Capacity

\* `shadow_tail_ == head` / `head == tail`
IsEmpty_always(head, tail) == TRUE
IsEmpty_never(head, tail) == FALSE
IsEmpty(head, tail) == head = tail

\* the head the producer's slow path works with: a fresh acquire load
ProducerHead_stale == shadow_head_
ProducerHead == head_

\* the tail the consumer's slow path works with: a fresh acquire load
ConsumerTail_stale == shadow_tail_
ConsumerTail == tail_

\* buffer_[tail & mask_]
ProducerSlot_ahead(tail) == BitAnd(tail + 1, mask_)
ProducerSlot(tail) == BitAnd(tail, mask_)

\* buffer_[head & mask_]
ConsumerSlot_next(head) == BitAnd(head + 1, mask_)
ConsumerSlot(head) == BitAnd(head, mask_)

\* where try_produce continues when the re-check finds the queue full:
\* `return false`, the call is over
FullExit_writes == "write"
FullExit == "idle"

\* try_produce, lines 86-92: load tail, test the shadow head
TryProduceLoadTail ==
    /\ p_pc = "idle"
    /\ tail_ < MaxPush
    /\ \E v \in Values : p_val' = v
    /\ p_tail' = tail_
    /\ IF IsFull(tail_, shadow_head_)
          THEN /\ p_pc' = "load_head"
               /\ p_last' = NoDecision
          ELSE /\ p_pc' = "write"
               /\ p_last' = [ret |-> "ok", size |-> tail_ - head_]
    /\ UNCHANGED << rvars, svars, xvars, head_, tail_, shadow_head_, shadow_tail_, buffer_,
                    c_pc, c_head, c_out, c_last, pushed, popped >>

\* try_produce, lines 96-102: reload head, refresh the shadow, re-check
TryProduceLoadHead ==
    /\ p_pc = "load_head"
    /\ shadow_head_' = ProducerHead
    /\ IF IsFull(p_tail, ProducerHead)
          THEN /\ p_pc' = FullExit
               /\ p_last' = [ret |-> "full", size |-> tail_ - head_]
          ELSE /\ p_pc' = "write"
               /\ p_last' = [ret |-> "ok", size |-> tail_ - head_]
    /\ UNCHANGED << rvars, svars, xvars, head_, tail_, shadow_tail_, buffer_, p_tail, p_val,
                    c_pc, c_head, c_out, c_last, pushed, popped >>

\* try_produce, line 107: the writer callback fills the slot
TryProduceWrite ==
    /\ p_pc = "write"
    /\ buffer_' = [buffer_ EXCEPT ![ProducerSlot(p_tail)] = p_val]
    /\ p_pc' = "publish"
    /\ UNCHANGED << rvars, svars, xvars, head_, tail_, shadow_head_, shadow_tail_, p_tail, p_val,
                    p_last, c_pc, c_head, c_out, c_last, pushed, popped >>

\* try_produce, lines 111-112: publish tail + 1, return true
TryProducePublish ==
    /\ p_pc = "publish"
    /\ tail_' = p_tail + 1
    /\ pushed' = Append(pushed, p_val)
    /\ p_pc' = "idle"
    /\ UNCHANGED << rvars, svars, xvars, head_, shadow_head_, shadow_tail_, buffer_, p_tail, p_val,
                    p_last, c_pc, c_head, c_out, c_last, popped >>

\* try_consume, lines 195-198: load head, test the shadow tail
TryConsumeLoadHead ==
    /\ c_pc = "idle"
    /\ c_head' = head_
    /\ IF IsEmpty(head_, shadow_tail_)
          THEN /\ c_pc' = "load_tail"
               /\ c_last' = NoDecision
          ELSE /\ c_pc' = "visit"
               /\ c_last' = [ret |-> "ok", size |-> tail_ - head_]
    /\ UNCHANGED << rvars, svars, xvars, head_, tail_, shadow_head_, shadow_tail_, buffer_,
                    p_pc, p_tail, p_val, p_last, c_out, pushed, popped >>

\* try_consume, lines 201-207: reload tail, refresh the shadow, re-check
TryConsumeLoadTail ==
    /\ c_pc = "load_tail"
    /\ shadow_tail_' = ConsumerTail
    /\ IF IsEmpty(c_head, ConsumerTail)
          THEN /\ c_pc' = "idle"
               /\ c_last' = [ret |-> "empty", size |-> tail_ - head_]
          ELSE /\ c_pc' = "visit"
               /\ c_last' = [ret |-> "ok", size |-> tail_ - head_]
    /\ UNCHANGED << rvars, svars, xvars, head_, tail_, shadow_head_, buffer_, p_pc, p_tail, p_val,
                    p_last, c_head, c_out, pushed, popped >>

\* try_consume, line 211: the visitor reads the slot
TryConsumeVisit ==
    /\ c_pc = "visit"
    /\ c_out' = buffer_[ConsumerSlot(c_head)]
    /\ c_pc' = "commit"
    /\ UNCHANGED << rvars, svars, xvars, head_, tail_, shadow_head_, shadow_tail_, buffer_,
                    p_pc, p_tail, p_val, p_last, c_head, c_last,
                    pushed, popped >>

\* try_consume, lines 215-216: publish head + 1, return true
TryConsumeCommit ==
    /\ c_pc = "commit"
    /\ head_' = c_head + 1
    /\ popped' = Append(popped, c_out)
    /\ c_pc' = "idle"
    /\ UNCHANGED << rvars, svars, xvars, tail_, shadow_head_, shadow_tail_, buffer_, p_pc, p_tail,
                    p_val, p_last, c_head, c_out, c_last, pushed >>

QueueNext ==
    \/ TryProduceLoadTail
    \/ TryProduceLoadHead
    \/ TryProduceWrite
    \/ TryProducePublish
    \/ TryConsumeLoadHead
    \/ TryConsumeLoadTail
    \/ TryConsumeVisit
    \/ TryConsumeCommit

(***************************************************************************)
(* RingBuffer<T,N> (N = 2^k > 1), RingBuffer<T,3>, RingBuffer<T,1>,        *)
(* SeqLock<T> and SeqLockBuffer<T,N>.  The payload T has two fields that   *)
(* are written and read one at a time; write number j stores j in both.    *)
(***************************************************************************)
RingN == 2 ^ RLog
\* Readers never write shared state, so they cannot influence the writer or
\* each other: one reader stands for any number of them.
Readers == {"r1"}
RingKinds == {"single", "triple", "pow2"}

NSlots(kind) ==
    CASE kind = "single" -> 1
      [] kind = "triple" -> 3
      [] OTHER -> RingN

\* next_slot: 0 -> 1 -> 2 -> 0
next_slot_same(current) == current
next_slot_back(current) == IF current = 0 THEN 2 ELSE current - 1
next_slot(current) == IF current + 1 = 3 THEN 0 ELSE current + 1

\* the index the writer publishes next
NextIndex_same(current) == current
NextIndex(current) ==
    CASE ringKind = "single" -> 0
      [] ringKind = "triple" -> next_slot(current)
      [] OTHER -> current + 1

\* the physical slot an index selects: slots_[idx & (N - 1)], slots_[idx]
SlotOf(idx) ==
    CASE ringKind = "single" -> 0
      [] ringKind = "triple" -> idx
      [] OTHER -> BitAnd(idx, RingN - 1)

\* the slot a reader copies from
ReaderSlot_oldest(idx) == SlotOf(NextIndex(idx))
ReaderSlot(idx) == SlotOf(idx)

\* the final check of a try read: seq1 == seq2
SeqUnchanged_never(s1, s2) == FALSE
SeqUnchanged_skip(s1, s2) == TRUE
SeqUnchanged(s1, s2) == s1 = s2

\* the first check of a try read: seq1 & 1
SeqIsOdd_never(s1) == FALSE
SeqIsOdd_unwritten(s1) == s1 % 2 = 1 \/ s1 = 0
SeqIsOdd(s1) == s1 % 2 = 1

\* the index a try read starts from: an acquire load of global_index_
LoadedIndex_previous == IF global_index_ = 0 THEN 0 ELSE global_index_ - 1
LoadedIndex == global_index_

\* the payload of write number n + 1: the publisher sends increasing values
WriteValue_cyclic(n) == (n % 2) + 1
WriteValue(n) == n + 1

\* the guard of the writer's first step: there is none, it never waits
WriterMayStart_waits == \A r \in Readers : r_pc[r] \notin {"read_a", "read_b", "seq2"}
WriterMayStart == TRUE

AnyOdd(sq) == \E i \in DOMAIN sq : sq[i] % 2 = 1
InRead(r) == r_pc[r] # "idle"
InCopy(r) == r_pc[r] \in {"read_a", "read_b", "seq2"}

\* read history before any read.  stepped: the writer took a step during the
\* read in progress; since: the writer took a step since the last successful
\* read began; pair: "none" or "first" before two reads have succeeded, then
\* "quiet" if the writer took no step from the start of the earlier to the
\* end of the later of the last two successful reads, "disturbed" otherwise;
\* base: the number of the write that was published last when the read began
NoReads == [stepped |-> FALSE, since |-> FALSE, pair |-> "none", base |-> 0]

\* what a finished copy leaves in the slots: the read methods are const
AfterRead_clear(d, s) == [d EXCEPT ![s] = [a |-> 0, b |-> 0]]
AfterRead_moved(d, s) == [d EXCEPT ![s].b = 0]
AfterRead(d, s) == d

RingInitOf(kind) ==
    /\ ringKind = kind
    /\ seq = [i \in 0 .. NSlots(kind) - 1 |-> 0]
    /\ data_ = [i \in 0 .. NSlots(kind) - 1 |-> [a |-> 0, b |-> 0]]
    /\ writer_index_ = 0
    /\ global_index_ = 0
    /\ w_pc = "idle" /\ w_next = 0 /\ w_start_seq = 0 /\ w_steps = 0
    /\ writes_done = 0
    /\ r_pc = [r \in Readers |-> "idle"]
    /\ r_idx = [r \in Readers |-> 0]
    /\ r_seq1 = [r \in Readers |-> 0]
    /\ r_out = [r \in Readers |-> [a |-> 0, b |-> 0]]
    /\ r_res = [r \in Readers |-> "none"]
    /\ r_hist = [r \in Readers |-> << 0, 0 >>]
    /\ r_ovOdd = [r \in Readers |-> FALSE]
    /\ r_ovSame = [r \in Readers |-> FALSE]
    /\ r_quiet = [r \in Readers |-> TRUE]
    /\ r_wd = [r \in Readers |-> 0]
    /\ seq_max = [i \in 0 .. NSlots(kind) - 1 |-> 0]
    /\ r_clk = [r \in Readers |-> NoReads]

RingInit == \E kind \in RingKinds : RingInitOf(kind)

\* history kept for the readers that are inside a try read while the writer
\* takes a step that leaves the sequences `sq` and locks slot `locked`
\* (-1: none)
WriterStepSeen(sq, locked) ==
    /\ r_quiet' = [r \in Readers |-> IF InRead(r) THEN FALSE ELSE r_quiet[r]]
    /\ r_ovOdd' = [r \in Readers |->
                     IF InRead(r) THEN r_ovOdd[r] \/ AnyOdd(sq) ELSE r_ovOdd[r]]
    /\ r_clk' = [r \in Readers |->
                    [r_clk[r] EXCEPT !.since = TRUE,
                                     !.stepped = InRead(r) \/ @]]
    /\ r_ovSame' = [r \in Readers |->
                     IF InCopy(r) /\ ReaderSlot(r_idx[r]) = locked
                        THEN TRUE ELSE r_ovSame[r]]

\* push/write/store: pick the slot, load its seq, store seq + 1 (odd)
WriterLock ==
    /\ w_pc = "idle"
    /\ writes_done < MaxWrites
    /\ WriterMayStart
    /\ LET next == NextIndex(writer_index_)
           s == SlotOf(next)
       IN /\ w_next' = next
          /\ w_start_seq' = seq[s]
          /\ seq' = [seq EXCEPT ![s] = seq[s] + 1]
          /\ WriterStepSeen(seq', s)
    /\ w_pc' = "write_a"
    /\ w_steps' = 1
    /\ seq_max' = [i \in DOMAIN seq |->
                     IF seq'[i] > seq_max[i] THEN seq'[i] ELSE seq_max[i]]
    /\ UNCHANGED << qvars, svars, xvars, ringKind, data_, writer_index_, global_index_,
                    writes_done, r_pc, r_idx, r_seq1, r_out, r_res, r_hist,
                    r_wd >>

\* the payload write, first field
WriterWriteA ==
    /\ w_pc = "write_a"
    /\ data_' = [data_ EXCEPT ![SlotOf(w_next)].a = WriteValue(writes_done)]
    /\ WriterStepSeen(seq, -1)
    /\ w_pc' = "write_b"
    /\ w_steps' = w_steps + 1
    /\ UNCHANGED << qvars, svars, xvars, ringKind, seq_max, seq, writer_index_, global_index_, w_next,
                    w_start_seq, writes_done, r_pc, r_idx, r_seq1, r_out,
                    r_res, r_hist, r_wd >>

\* the payload write, second field
WriterWriteB ==
    /\ w_pc = "write_b"
    /\ data_' = [data_ EXCEPT ![SlotOf(w_next)].b = WriteValue(writes_done)]
    /\ WriterStepSeen(seq, -1)
    /\ w_pc' = "unlock"
    /\ w_steps' = w_steps + 1
    /\ UNCHANGED << qvars, svars, xvars, ringKind, seq_max, seq, writer_index_, global_index_, w_next,
                    w_start_seq, writes_done, r_pc, r_idx, r_seq1, r_out,
                    r_res, r_hist, r_wd >>

\* the sequence value that ends a write: start_seq + 2
UnlockSeq_restore(start) == start
UnlockSeq(start) == start + 2

\* store start_seq + 2 (even); with N = 1 the write is complete
WriterUnlock ==
    /\ w_pc = "unlock"
    /\ seq' = [seq EXCEPT ![SlotOf(w_next)] = UnlockSeq(w_start_seq)]
    /\ WriterStepSeen(seq', -1)
    /\ IF ringKind = "single"
          THEN /\ w_pc' = "idle"
               /\ writes_done' = writes_done + 1
          ELSE /\ w_pc' = "publish"
               /\ writes_done' = writes_done
    /\ w_steps' = w_steps + 1
    /\ seq_max' = [i \in DOMAIN seq |->
                     IF seq'[i] > seq_max[i] THEN seq'[i] ELSE seq_max[i]]
    /\ UNCHANGED << qvars, svars, xvars, ringKind, data_, writer_index_, global_index_,
                    w_next, w_start_seq, r_pc, r_idx, r_seq1, r_out, r_res,
                    r_hist, r_wd >>

\* N > 1: store next_idx into global_index_, then into writer_index_
WriterPublish ==
    /\ w_pc = "publish"
    /\ global_index_' = w_next
    /\ writer_index_' = w_next
    /\ WriterStepSeen(seq, -1)
    /\ w_pc' = "idle"
    /\ writes_done' = writes_done + 1
    /\ w_steps' = w_steps + 1
    /\ UNCHANGED << qvars, svars, xvars, ringKind, seq_max, seq, data_, w_next, w_start_seq, r_pc,
                    r_idx, r_seq1, r_out, r_res, r_hist, r_wd >>

WriterNext ==
    \/ WriterLock
    \/ WriterWriteA
    \/ WriterWriteB
    \/ WriterUnlock
    \/ WriterPublish

\* history reset when reader r starts a try read
ReadStarts(r) ==
    /\ r_quiet' = [r_quiet EXCEPT ![r] = (w_pc = "idle")]
    /\ r_ovOdd' = [r_ovOdd EXCEPT ![r] = AnyOdd(seq)]

\* N > 1: load global_index_ (N = 3: an index >= 3 is refused)
ReaderLoadIndex(r) ==
    /\ r_pc[r] = "idle"
    /\ ringKind # "single"
    /\ r_idx' = [r_idx EXCEPT ![r] = LoadedIndex]
    /\ ReadStarts(r)
    /\ r_clk' = [r_clk EXCEPT ![r].stepped = FALSE, ![r].base = writes_done]
    /\ r_ovSame' = [r_ovSame EXCEPT ![r] = FALSE]
    /\ IF ringKind = "triple" /\ LoadedIndex >= 3
          THEN /\ r_pc' = r_pc
               /\ r_res' = [r_res EXCEPT ![r] = "fail"]
          ELSE /\ r_pc' = [r_pc EXCEPT ![r] = "seq1"]
               /\ r_res' = [r_res EXCEPT ![r] = "none"]
    /\ UNCHANGED << qvars, svars, xvars, ringKind, seq_max, seq, data_, writer_index_, global_index_,
                    w_pc, w_next, w_start_seq, w_steps, writes_done, r_seq1,
                    r_out, r_hist, r_wd >>

\* load the slot's seq as seq1; odd: return false
ReaderLoadSeq1(r) ==
    /\ \/ r_pc[r] = "seq1"
       \/ r_pc[r] = "idle" /\ ringKind = "single"
    /\ LET first == r_pc[r] = "idle"
           s1 == seq[ReaderSlot(r_idx[r])]
       IN /\ r_seq1' = [r_seq1 EXCEPT ![r] = s1]
          /\ r_quiet' = IF first THEN [r_quiet EXCEPT ![r] = (w_pc = "idle")]
                                 ELSE r_quiet
          /\ r_ovOdd' = IF first THEN [r_ovOdd EXCEPT ![r] = AnyOdd(seq)]
                                 ELSE r_ovOdd
          /\ r_ovSame' = [r_ovSame EXCEPT ![r] = (s1 % 2 = 1)]
          /\ r_clk' = [r_clk EXCEPT ![r].stepped = IF first THEN FALSE ELSE @,
                                   ![r].base = IF first THEN writes_done ELSE @]
          /\ IF SeqIsOdd(s1)
                THEN /\ r_pc' = [r_pc EXCEPT ![r] = "idle"]
                     /\ r_res' = [r_res EXCEPT ![r] = "fail"]
                     /\ r_wd' = [r_wd EXCEPT ![r] = writes_done]
                ELSE /\ r_pc' = [r_pc EXCEPT ![r] = "read_a"]
                     /\ r_res' = [r_res EXCEPT ![r] = "none"]
                     /\ r_wd' = r_wd
    /\ UNCHANGED << qvars, svars, xvars, ringKind, seq_max, seq, data_, writer_index_, global_index_,
                    w_pc, w_next, w_start_seq, w_steps, writes_done, r_idx,
                    r_out, r_hist >>

\* the payload copy, first field
ReaderReadA(r) ==
    /\ r_pc[r] = "read_a"
    /\ r_out' = [r_out EXCEPT ![r].a = data_[ReaderSlot(r_idx[r])].a]
    /\ r_pc' = [r_pc EXCEPT ![r] = "read_b"]
    /\ UNCHANGED << qvars, svars, xvars, ringKind, seq_max, r_clk, seq, data_, writer_index_, global_index_,
                    w_pc, w_next, w_start_seq, w_steps, writes_done, r_idx,
                    r_seq1, r_res, r_hist, r_ovOdd, r_ovSame, r_quiet, r_wd >>

\* the payload copy, second field
ReaderReadB(r) ==
    /\ r_pc[r] = "read_b"
    /\ r_out' = [r_out EXCEPT ![r].b = data_[ReaderSlot(r_idx[r])].b]
    /\ data_' = AfterRead(data_, ReaderSlot(r_idx[r]))
    /\ r_pc' = [r_pc EXCEPT ![r] = "seq2"]
    /\ UNCHANGED << qvars, svars, xvars, ringKind, seq_max, r_clk, seq, writer_index_, global_index_,
                    w_pc, w_next, w_start_seq, w_steps, writes_done, r_idx,
                    r_seq1, r_res, r_hist, r_ovOdd, r_ovSame, r_quiet, r_wd >>

\* load the slot's seq as seq2; return seq1 == seq2
ReaderLoadSeq2(r) ==
    /\ r_pc[r] = "seq2"
    /\ LET ok == SeqUnchanged(r_seq1[r], seq[ReaderSlot(r_idx[r])])
       IN /\ r_res' = [r_res EXCEPT ![r] = IF ok THEN "ok" ELSE "fail"]
          /\ r_hist' = [r_hist EXCEPT ![r] =
                          IF ok THEN << r_hist[r][2], r_out[r].a >>
                                ELSE r_hist[r]]
          /\ r_clk' = [r_clk EXCEPT ![r] =
                         IF ok THEN [stepped |-> @.stepped,
                                     base |-> @.base,
                                     since |-> @.stepped,
                                     pair |-> IF @.pair = "none" THEN "first"
                                              ELSE IF @.since THEN "disturbed"
                                              ELSE "quiet"]
                               ELSE @]
    /\ r_wd' = [r_wd EXCEPT ![r] = writes_done]
    /\ r_pc' = [r_pc EXCEPT ![r] = "idle"]
    /\ UNCHANGED << qvars, svars, xvars, ringKind, seq_max, seq, data_, writer_index_, global_index_,
                    w_pc, w_next, w_start_seq, w_steps, writes_done, r_idx,
                    r_seq1, r_out, r_ovOdd, r_ovSame, r_quiet >>

\* one step of reader r
ReaderNext(r) ==
    \/ ReaderLoadIndex(r)
    \/ ReaderLoadSeq1(r)
    \/ ReaderReadA(r)
    \/ ReaderReadB(r)
    \/ ReaderLoadSeq2(r)

RingNext ==
    \/ WriterLock
    \/ WriterWriteA
    \/ WriterWriteB
    \/ WriterUnlock
    \/ WriterPublish
    \/ \E r \in Readers : ReaderLoadIndex(r)
    \/ \E r \in Readers : ReaderLoadSeq1(r)
    \/ \E r \in Readers : ReaderReadA(r)
    \/ \E r \in Readers : ReaderReadB(r)
    \/ \E r \in Readers : ReaderLoadSeq2(r)

(***************************************************************************)
(* SharedMemory<T>: one Owner process and one User process construct a     *)
(* handle on the same name.  shmKind selects the implementation:           *)
(*   "core"   include/eph/core/shared_memory.hpp (atomic wait),            *)
(*   "legacy" include/eph_channel/shared_memory.hpp (bounded retries).     *)
(* The file system holds at most one entry for the name; inode 1 is a file *)
(* left behind by an Owner that was killed, inode 2 the file the Owner     *)
(* creates.  o_fd, o_layout and o_owner are the fields of the handle that  *)
(* holds the Owner's resources; `moved` is the handle a move left behind.  *)
(* The payload type has a destructor; the mapping uses ordinary pages.     *)
(***************************************************************************)
CACHE_LINE_SIZE == 64
RetryLimit == 1000

ShmKinds == {"core", "legacy"}
StaleKinds == {"none", "empty", "sized", "initialized"}
Inodes == {1, 2}
StaleInode == 1
OwnerInode == 2

\* sizeof(Layout) for a payload of at most one cache line, ordinary pages
ExpectedSize == 2 * CACHE_LINE_SIZE

\* the User's test of the flag: initialized.load(acquire)
InitObserved_nowait(ino) == TRUE
InitObserved(ino) == ino_init[ino]

\* the file ::open(full_path) gives the User: the one the name resolves to
OpenedInode_stale == IF shmStale = "none" THEN fs_path ELSE StaleInode
OpenedInode == fs_path

\* the User's size check: st_size < map_size
TooSmall_never(size) == FALSE
TooSmall(size) == size < ExpectedSize

\* open(name) constructs with is_owner = false
UserIsOwner == FALSE

\* cleanup: `is_owner && !full_path.empty()` guards ::unlink
CleanupUnlinks_never(owner, path) == FALSE
CleanupUnlinks_always(owner, path) == path
CleanupUnlinks(owner, path) == owner /\ path

\* what cleanup() does on a handle h = [fd, layout, owner, path].  "core"
\* does everything under `if (layout_)`; "legacy" closes and unlinks also
\* when layout_ is null.
CleanupActs(kind, h) ==
    [dtor   |-> h.layout # 0 /\ h.owner,
     unmap  |-> h.layout # 0,
     close  |-> h.fd # 0 /\ (kind = "legacy" \/ h.layout # 0),
     unlink |-> CleanupUnlinks(h.owner, h.path)
                    /\ (kind = "legacy" \/ h.layout # 0)]

\* what a constructor that throws does on its way out: "core" only closes
\* the descriptor (fd_guard), "legacy" runs cleanup()
ThrowActs(kind, h) ==
    IF kind = "legacy" THEN CleanupActs(kind, h)
    ELSE [dtor |-> FALSE, unmap |-> FALSE, close |-> h.fd # 0,
          unlink |-> FALSE]

NoActs == [dtor |-> FALSE, unmap |-> FALSE, close |-> FALSE, unlink |-> FALSE]

\* the layout_ a move leaves in its source: other.layout_ = nullptr
MovedFromLayout_kept(layout) == layout
MovedFromLayout(layout) == 0

\* the handle a move leaves behind: fd = -1, layout_ = nullptr,
\* is_owner_ = false, full_path empty
MovedFrom(h) ==
    [state |-> "alive", fd |-> 0, layout |-> MovedFromLayout(h.layout),
     owner |-> FALSE, path |-> FALSE]

NoHandle == [state |-> "none", fd |-> 0, layout |-> 0, owner |-> FALSE,
             path |-> FALSE]

OwnerHandle == [fd |-> o_fd, layout |-> o_layout, owner |-> o_owner,
                path |-> TRUE]
UserHandle == [fd |-> u_fd, layout |-> u_layout, owner |-> UserIsOwner,
               path |-> TRUE]

Count(b) == IF b THEN 1 ELSE 0

\* the effect of the calls `acts` on the file system and on the counters;
\* mine: the calls work on the resources of the Owner's process
Performs(acts, mine) ==
    /\ fs_path' = IF acts.unlink THEN 0 ELSE fs_path
    /\ done' = [dtor   |-> done.dtor + Count(acts.dtor),
                unlink |-> done.unlink + Count(acts.unlink),
                unmap  |-> done.unmap + Count(acts.unmap /\ mine),
                close  |-> done.close + Count(acts.close /\ mine)]

\* the state left on disk by an Owner killed at some point of its life
ShmInitOf(kind, stale) ==
    /\ shmKind = kind
    /\ shmStale = stale
    /\ fs_path = IF stale = "none" THEN 0 ELSE StaleInode
    /\ ino_size = [i \in Inodes |->
                     IF i = StaleInode /\ stale \in {"sized", "initialized"}
                        THEN ExpectedSize ELSE 0]
    /\ ino_init = [i \in Inodes |-> i = StaleInode /\ stale = "initialized"]
    /\ ino_constructed =
           [i \in Inodes |-> i = StaleInode /\ stale = "initialized"]
    /\ o_pc = "unlink" /\ o_fd = 0 /\ o_layout = 0
    /\ u_pc = "open" /\ u_fd = 0 /\ u_layout = 0
    /\ u_retries = 0 /\ u_err = "none" /\ u_attempts = 1
    /\ o_owner = TRUE /\ o_state = "none" /\ o_err = "none"
    /\ moved = NoHandle
    /\ done = [dtor |-> 0, unlink |-> 0, unmap |-> 0, close |-> 0]
    /\ o_moves = 0 /\ u_moves = 0
    /\ u_late = FALSE
    /\ u_began = "none"

ShmInit == \E kind \in ShmKinds, stale \in StaleKinds : ShmInitOf(kind, stale)

\* Owner: ::unlink(full_path) before opening
OwnerUnlink ==
    /\ o_pc = "unlink"
    /\ fs_path' = 0
    /\ o_pc' = "open"
    /\ UNCHANGED << qvars, rvars, xvars, hvars, shmKind, shmStale, ino_size, ino_init,
                    ino_constructed, o_fd, o_layout, u_pc, u_fd, u_layout,
                    u_retries, u_err, u_attempts >>

\* Owner: ::open(O_RDWR | O_CREAT | O_EXCL) creates an empty, zeroed file
OwnerOpen ==
    /\ o_pc = "open"
    /\ fs_path = 0
    /\ fs_path' = OwnerInode
    /\ o_fd' = OwnerInode
    /\ ino_size' = [ino_size EXCEPT ![OwnerInode] = 0]
    /\ ino_init' = [ino_init EXCEPT ![OwnerInode] = FALSE]
    /\ ino_constructed' = [ino_constructed EXCEPT ![OwnerInode] = FALSE]
    /\ o_pc' = "truncate"
    /\ UNCHANGED << qvars, rvars, xvars, hvars, shmKind, shmStale, o_layout, u_pc, u_fd,
                    u_layout, u_retries, u_err, u_attempts >>

\* Owner: ::ftruncate(fd, map_size)
OwnerTruncate ==
    /\ o_pc = "truncate"
    /\ ino_size' = [ino_size EXCEPT ![o_fd] = ExpectedSize]
    /\ o_pc' = "mmap"
    /\ UNCHANGED << qvars, rvars, xvars, hvars, shmKind, shmStale, fs_path, ino_init,
                    ino_constructed, o_fd, o_layout, u_pc, u_fd, u_layout,
                    u_retries, u_err, u_attempts >>

\* Owner: ::mmap(MAP_SHARED), layout_ = addr
OwnerMmap ==
    /\ o_pc = "mmap"
    /\ o_layout' = o_fd
    /\ o_pc' = "construct"
    /\ UNCHANGED << qvars, rvars, xvars, hvars, shmKind, shmStale, fs_path, ino_size,
                    ino_init, ino_constructed, o_fd, u_pc, u_fd, u_layout,
                    u_retries, u_err, u_attempts >>

\* Owner: ::ftruncate or ::mmap returns an error and the constructor throws
OwnerThrows ==
    /\ o_pc \in {"truncate", "mmap"}
    /\ o_err' = IF o_pc = "truncate" THEN "ftruncate failed" ELSE "mmap failed"
    /\ Performs(ThrowActs(shmKind, OwnerHandle), TRUE)
    /\ o_fd' = 0
    /\ o_pc' = "failed"
    /\ UNCHANGED << qvars, rvars, xvars, shmKind, shmStale, ino_size, ino_init,
                    ino_constructed, o_layout, u_pc, u_fd, u_layout,
                    u_retries, u_err, u_attempts, o_owner, o_state, moved,
                    o_moves, u_moves, u_late,
                    u_began >>

\* Owner: std::construct_at(&layout_->data)
OwnerConstruct ==
    /\ o_pc = "construct"
    /\ ino_constructed' = [ino_constructed EXCEPT ![o_layout] = TRUE]
    /\ o_pc' = "store"
    /\ UNCHANGED << qvars, rvars, xvars, hvars, shmKind, shmStale, fs_path, ino_size,
                    ino_init, o_fd, o_layout, u_pc, u_fd, u_layout, u_retries,
                    u_err, u_attempts >>

\* Owner: layout_->initialized.store(true, release); the handle is ready
OwnerStoreInit ==
    /\ o_pc = "store"
    /\ ino_init' = [ino_init EXCEPT ![o_layout] = TRUE]
    /\ o_pc' = "ready"
    /\ o_state' = "alive"
    /\ UNCHANGED << qvars, rvars, xvars, shmKind, shmStale, fs_path, ino_size,
                    ino_constructed, o_fd, o_layout, u_pc, u_fd, u_layout,
                    u_retries, u_err, u_attempts, o_owner, o_err, moved,
                    done, o_moves, u_moves, u_late,
                    u_began >>

\* Owner: move construction, SharedMemory b(std::move(a)): b takes fd,
\* layout_ and is_owner_, a is reset
OwnerMoveConstruct ==
    /\ o_state = "alive"
    /\ moved.state # "alive"
    /\ o_moves < MaxMoves
    /\ moved' = MovedFrom(OwnerHandle)
    /\ o_moves' = o_moves + 1
    /\ UNCHANGED << qvars, rvars, xvars, shmKind, shmStale, fs_path, ino_size, ino_init,
                    ino_constructed, o_pc, o_fd, o_layout, u_pc, u_fd,
                    u_layout, u_retries, u_err, u_attempts, o_owner, o_state,
                    o_err, done, u_moves, u_late,
                    u_began >>

\* Owner: move assignment onto the handle an earlier move left behind,
\* a = std::move(b): a.cleanup(), a takes the fields, b is reset
OwnerMoveAssign ==
    /\ o_state = "alive"
    /\ moved.state = "alive"
    /\ o_moves < MaxMoves
    /\ Performs(CleanupActs(shmKind, moved), TRUE)
    /\ moved' = MovedFrom(OwnerHandle)
    /\ o_moves' = o_moves + 1
    /\ UNCHANGED << qvars, rvars, xvars, shmKind, shmStale, ino_size, ino_init,
                    ino_constructed, o_pc, o_fd, o_layout, u_pc, u_fd,
                    u_layout, u_retries, u_err, u_attempts, o_owner, o_state,
                    o_err, u_moves, u_late,
                    u_began >>

\* Owner: destructor of the handle that holds the resources
OwnerDestroy ==
    /\ o_state = "alive"
    /\ Performs(CleanupActs(shmKind, OwnerHandle), TRUE)
    /\ o_fd' = 0
    /\ o_layout' = 0
    /\ o_state' = "dead"
    /\ UNCHANGED << qvars, rvars, xvars, shmKind, shmStale, ino_size, ino_init,
                    ino_constructed, o_pc, u_pc, u_fd, u_layout, u_retries,
                    u_err, u_attempts, o_owner, o_err, moved, o_moves,
                    u_moves, u_late,
                    u_began >>

\* Owner: destructor of the moved-from handle
MovedDestroy ==
    /\ moved.state = "alive"
    /\ Performs(CleanupActs(shmKind, moved), TRUE)
    /\ moved' = [moved EXCEPT !.state = "dead", !.fd = 0, !.layout = 0]
    /\ UNCHANGED << qvars, rvars, xvars, shmKind, shmStale, ino_size, ino_init,
                    ino_constructed, o_pc, o_fd, o_layout, u_pc, u_fd,
                    u_layout, u_retries, u_err, u_attempts, o_owner, o_state,
                    o_err, o_moves, u_moves, u_late,
                    u_began >>

\* User: ::open(O_RDWR); a missing name throws "open failed"
UserOpen ==
    /\ u_pc = "open"
    /\ u_late' = (o_state = "dead")
    /\ u_began' = o_state
    /\ IF fs_path = 0
          THEN /\ u_pc' = "error"
               /\ u_err' = "open failed"
               /\ u_fd' = 0
               /\ Performs(ThrowActs(shmKind, UserHandle), FALSE)
          ELSE /\ u_pc' = "fstat"
               /\ u_err' = "none"
               /\ u_fd' = OpenedInode
               /\ Performs(NoActs, FALSE)
    /\ UNCHANGED << qvars, rvars, xvars, shmKind, shmStale, ino_size, ino_init,
                    ino_constructed, o_pc, o_fd, o_layout, u_layout,
                    u_retries, u_attempts, o_owner, o_state, o_err, moved,
                    o_moves, u_moves >>

\* User: ::fstat; a file smaller than the layout throws "size mismatch" and
\* the descriptor is closed
UserFstat ==
    /\ u_pc = "fstat"
    /\ IF TooSmall(ino_size[u_fd])
          THEN /\ u_pc' = "error"
               /\ u_err' = "size mismatch"
               /\ u_fd' = 0
               /\ Performs(ThrowActs(shmKind, UserHandle), FALSE)
          ELSE /\ u_pc' = "mmap"
               /\ u_err' = "none"
               /\ u_fd' = u_fd
               /\ Performs(NoActs, FALSE)
    /\ UNCHANGED << qvars, rvars, xvars, shmKind, shmStale, ino_size, ino_init,
                    ino_constructed, o_pc, o_fd, o_layout, u_layout,
                    u_retries, u_attempts, o_owner, o_state, o_err, moved,
                    o_moves, u_moves, u_late,
                    u_began >>

\* User: ::mmap(MAP_SHARED), layout_ = addr
UserMmap ==
    /\ u_pc = "mmap"
    /\ u_layout' = u_fd
    /\ u_pc' = "wait"
    /\ UNCHANGED << qvars, rvars, xvars, hvars, shmKind, shmStale, fs_path, ino_size,
                    ino_init, ino_constructed, o_pc, o_fd, o_layout, u_fd,
                    u_retries, u_err, u_attempts >>

\* User: one turn of the loop on initialized.load(acquire).  "legacy" counts
\* the turns and throws "initialization timeout" past RetryLimit (cleanup
\* unmaps and closes); "core" sleeps in initialized.wait(false).
UserWaitInit ==
    /\ u_pc = "wait"
    /\ IF InitObserved(u_layout)
          THEN /\ u_pc' = "ready"
               /\ Performs(NoActs, FALSE)
               /\ UNCHANGED << u_retries, u_err, u_fd, u_layout >>
          ELSE /\ shmKind = "legacy"
               /\ u_retries' = u_retries + 1
               /\ IF u_retries + 1 > RetryLimit
                     THEN /\ u_pc' = "error"
                          /\ u_err' = "initialization timeout"
                          /\ u_fd' = 0
                          /\ u_layout' = 0
                          /\ Performs(ThrowActs(shmKind, UserHandle), FALSE)
                     ELSE /\ Performs(NoActs, FALSE)
                          /\ UNCHANGED << u_pc, u_err, u_fd, u_layout >>
    /\ UNCHANGED << qvars, rvars, xvars, shmKind, shmStale, ino_size, ino_init,
                    ino_constructed, o_pc, o_fd, o_layout, u_attempts,
                    o_owner, o_state, o_err, moved, o_moves, u_moves,
                    u_late,
                    u_began >>

\* User: move construction followed by the destructor of the moved-from
\* handle; the new handle holds the same fd, layout_ and is_owner_
UserMove ==
    /\ u_pc = "ready"
    /\ u_moves < MaxMoves
    /\ Performs(CleanupActs(shmKind, MovedFrom(UserHandle)), FALSE)
    /\ u_moves' = u_moves + 1
    /\ UNCHANGED << qvars, rvars, xvars, shmKind, shmStale, ino_size, ino_init,
                    ino_constructed, o_pc, o_fd, o_layout, u_pc, u_fd,
                    u_layout, u_retries, u_err, u_attempts, o_owner, o_state,
                    o_err, moved, o_moves, u_late,
                    u_began >>

\* User: destructor of its handle
UserDestroy ==
    /\ u_pc = "ready"
    /\ Performs(CleanupActs(shmKind, UserHandle), FALSE)
    /\ u_fd' = 0
    /\ u_layout' = 0
    /\ u_pc' = "dropped"
    /\ UNCHANGED << qvars, rvars, xvars, shmKind, shmStale, ino_size, ino_init,
                    ino_constructed, o_pc, o_fd, o_layout, u_retries, u_err,
                    u_attempts, o_owner, o_state, o_err, moved, o_moves,
                    u_moves, u_late,
                    u_began >>

\* the caller of a failed or dropped User handle constructs another one
UserRetry ==
    /\ u_pc \in {"error", "dropped"}
    /\ u_attempts < MaxAttach
    /\ u_attempts' = u_attempts + 1
    /\ u_pc' = "open"
    /\ u_retries' = 0
    /\ u_late' = FALSE
    /\ u_began' = "none"
    /\ UNCHANGED << qvars, rvars, xvars, shmKind, shmStale, fs_path, ino_size, ino_init,
                    ino_constructed, o_pc, o_fd, o_layout, u_fd, u_layout,
                    u_err, o_owner, o_state, o_err, moved, done, o_moves,
                    u_moves >>

\* one step of the Owner process
OwnerNext ==
    \/ OwnerUnlink
    \/ OwnerOpen
    \/ OwnerTruncate
    \/ OwnerMmap
    \/ OwnerThrows
    \/ OwnerConstruct
    \/ OwnerStoreInit
    \/ OwnerMoveConstruct
    \/ OwnerMoveAssign
    \/ OwnerDestroy
    \/ MovedDestroy

\* one step of the User process
UserNext ==
    \/ UserOpen
    \/ UserFstat
    \/ UserMmap
    \/ UserWaitInit
    \/ UserMove
    \/ UserDestroy
    \/ UserRetry

ShmNext ==
    \/ OwnerUnlink
    \/ OwnerOpen
    \/ OwnerTruncate
    \/ OwnerMmap
    \/ OwnerThrows
    \/ OwnerConstruct
    \/ OwnerStoreInit
    \/ OwnerMoveConstruct
    \/ OwnerMoveAssign
    \/ OwnerDestroy
    \/ MovedDestroy
    \/ UserOpen
    \/ UserFstat
    \/ UserMmap
    \/ UserWaitInit
    \/ UserMove
    \/ UserDestroy
    \/ UserRetry

(***************************************************************************)
(* Channel layer of include/eph_channel: itc::Sender and itc::Receiver on  *)
(* the plain SPSC RingBuffer (raw_produce / raw_consume load the opposite  *)
(* counter on every call).  rb holds the ring's head_, tail_ and buffer_;  *)
(* snd is the Sender's thread inside one call of try_send, send(timeout),  *)
(* send(deadline) or send_batch; rcv is the Receiver's thread inside       *)
(* try_receive; now is std::chrono::steady_clock.                          *)
(***************************************************************************)
SendOps == {"try_send", "send_for", "send_until", "send_batch"}

\* the elements the caller sends: the code only copies them, so the caller
\* numbers them, element k (from 0) carrying (k mod (Capacity + 1)) + 1; a
\* slot then receives another value every time it is written
Element(k) == (k % (Capacity + 1)) + 1

\* the ranges handed to send_batch when k elements were sent before: the
\* next n elements
Range(k, n) == [i \in 1 .. n |-> Element(k + i - 1)]
Ranges(k) == {Range(k, n) : n \in 0 .. MaxBatch}

\* `steady_clock::now() - start > timeout`
Expired_ge(elapsed, timeout) == elapsed >= timeout
Expired(elapsed, timeout) == elapsed > timeout

\* `Clock::now() >= deadline`
DeadlineReached(t, deadline) == t >= deadline

\* send_batch, `++count`
NextCount_same(count) == count
NextCount(count) == count + 1

Min(a, b) == IF a < b THEN a ELSE b

IdleSender ==
    [op |-> "none", pc |-> "idle", data |-> 0, range |-> << >>, first |-> 1,
     count |-> 0,
     start |-> 0, limit |-> 0, tail |-> 0, ret |-> "none",
     hits |-> 0, tail0 |-> 0, head0 |-> 0]

IdleReceiver == [pc |-> "idle", head |-> 0, out |-> 0, ret |-> "none"]

ChanInit ==
    /\ rb = [head_ |-> 0, tail_ |-> 0,
             buffer_ |-> [i \in 0 .. Capacity - 1 |-> 0]]
    /\ snd = IdleSender
    /\ rcv = IdleReceiver
    /\ now = 0

\* the Sender's thread enters a call; tail0 and head0 record the ring's
\* counters at that moment, hits counts the successful try_send of the call
Enter(op, data, range, limit) ==
    [IdleSender EXCEPT !.op = op, !.data = data, !.range = range,
                       !.limit = limit, !.pc = "try",
                       !.start = IF op = "send_for" THEN now ELSE 0,
                       !.tail0 = rb.tail_, !.head0 = rb.head_]

\* try_send(data)
TrySendCall ==
    /\ snd.pc = "idle"
    /\ rb.tail_ < MaxPush
    /\ snd' = Enter("try_send", Element(rb.tail_), << >>, 0)
    /\ UNCHANGED << qvars, rvars, svars, rb, rcv, now, ovars, dvars >>

\* send(data, timeout), line 32: start = steady_clock::now()
SendForCall ==
    /\ snd.pc = "idle"
    /\ rb.tail_ < MaxPush
    /\ \E timeout \in 0 .. MaxTimeout :
           snd' = Enter("send_for", Element(rb.tail_), << >>, timeout)
    /\ UNCHANGED << qvars, rvars, svars, rb, rcv, now, ovars, dvars >>

\* send(data, deadline)
SendUntilCall ==
    /\ snd.pc = "idle"
    /\ rb.tail_ < MaxPush
    /\ \E deadline \in 0 .. MaxTime :
           snd' = Enter("send_until", Element(rb.tail_), << >>, deadline)
    /\ UNCHANGED << qvars, rvars, svars, rb, rcv, now, ovars, dvars >>

\* send_batch(first, last), lines 54-55: count = 0; an empty range returns
\* at once
SendBatchCall ==
    /\ snd.pc = "idle"
    /\ rb.tail_ < MaxPush
    /\ \E range \in Ranges(rb.tail_) :
           snd' = IF range = << >>
                     THEN [Enter("send_batch", 0, range, 0)
                              EXCEPT !.pc = "idle", !.ret = "count"]
                     ELSE Enter("send_batch", range[1], range, 0)
    /\ UNCHANGED << qvars, rvars, svars, rb, rcv, now, ovars, dvars >>

\* what the caller of try_send does with `false`
AfterFailedTry(s) ==
    CASE s.op = "try_send"   -> [s EXCEPT !.pc = "idle", !.ret = "false"]
      [] s.op = "send_batch" -> [s EXCEPT !.pc = "idle", !.ret = "count"]
      [] OTHER               -> [s EXCEPT !.pc = "check"]

\* what the caller of try_send does with `true`; send_batch, lines 58-59:
\* ++first, ++count, and `first != last` decides whether to go on
AfterSentTry(s) ==
    CASE s.op = "send_batch" ->
             IF s.first = Len(s.range)
                THEN [s EXCEPT !.pc = "idle", !.ret = "count",
                               !.first = @ + 1, !.count = NextCount(@)]
                ELSE [s EXCEPT !.pc = "try", !.first = @ + 1,
                               !.count = NextCount(@),
                               !.data = s.range[s.first + 1]]
      [] OTHER               -> [s EXCEPT !.pc = "idle", !.ret = "true"]

\* raw_produce, lines 52-57: load tail and head, `tail - head >= Capacity`
RawProduceLoad ==
    /\ snd.pc = "try"
    /\ snd' = IF IsFull(rb.tail_, rb.head_)
                 THEN AfterFailedTry([snd EXCEPT !.tail = rb.tail_])
                 ELSE [snd EXCEPT !.tail = rb.tail_, !.pc = "write"]
    /\ UNCHANGED << qvars, rvars, svars, rb, rcv, now, ovars, dvars >>

\* raw_produce, line 60: writer(buffer_[tail & mask_])
RawProduceWrite ==
    /\ snd.pc = "write"
    /\ rb' = [rb EXCEPT !.buffer_[ProducerSlot(snd.tail)] = snd.data]
    /\ snd' = [snd EXCEPT !.pc = "store"]
    /\ UNCHANGED << qvars, rvars, svars, rcv, now, ovars, dvars >>

\* raw_produce, lines 62-63: tail_.store(tail + 1), return true
RawProduceStore ==
    /\ snd.pc = "store"
    /\ rb' = [rb EXCEPT !.tail_ = snd.tail + 1]
    /\ snd' = AfterSentTry([snd EXCEPT !.hits = @ + 1])
    /\ UNCHANGED << qvars, rvars, svars, rcv, now, ovars, dvars >>

\* send, lines 34-36 and 45-47: read the clock after a failed try_send,
\* return false past the limit, else cpu_relax() and try again
SendCheck ==
    /\ snd.pc = "check"
    /\ LET over == IF snd.op = "send_for"
                      THEN Expired(now - snd.start, snd.limit)
                      ELSE DeadlineReached(now, snd.limit)
       IN  snd' = IF over
                     THEN [snd EXCEPT !.pc = "idle", !.ret = "false"]
                     ELSE [snd EXCEPT !.pc = "try"]
    /\ UNCHANGED << qvars, rvars, svars, rb, rcv, now, ovars, dvars >>

\* raw_consume, lines 67-72: load head and tail, `head == tail`
RawConsumeLoad ==
    /\ rcv.pc = "idle"
    /\ rcv' = IF IsEmpty(rb.head_, rb.tail_)
                 THEN [rcv EXCEPT !.head = rb.head_, !.ret = "false"]
                 ELSE [rcv EXCEPT !.head = rb.head_, !.ret = "none",
                                  !.pc = "visit"]
    /\ UNCHANGED << qvars, rvars, svars, rb, snd, now, ovars, dvars >>

\* raw_consume, line 74: visitor(buffer_[head & mask_])
RawConsumeVisit ==
    /\ rcv.pc = "visit"
    /\ rcv' = [rcv EXCEPT !.out = rb.buffer_[ConsumerSlot(rcv.head)],
                          !.pc = "store"]
    /\ UNCHANGED << qvars, rvars, svars, rb, snd, now, ovars, dvars >>

\* raw_consume, lines 76-77: head_.store(head + 1), return true
RawConsumeStore ==
    /\ rcv.pc = "store"
    /\ rb' = [rb EXCEPT !.head_ = rcv.head + 1]
    /\ rcv' = [rcv EXCEPT !.pc = "idle", !.ret = "true"]
    /\ UNCHANGED << qvars, rvars, svars, snd, now, ovars, dvars >>

\* the steady clock advances
Tick ==
    /\ now < MaxTime
    /\ now' = now + 1
    /\ UNCHANGED << qvars, rvars, svars, rb, snd, rcv, ovars, dvars >>

ChanNext ==
    \/ TrySendCall
    \/ SendForCall
    \/ SendUntilCall
    \/ SendBatchCall
    \/ RawProduceLoad
    \/ RawProduceWrite
    \/ RawProduceStore
    \/ SendCheck
    \/ RawConsumeLoad
    \/ RawConsumeVisit
    \/ RawConsumeStore
    \/ Tick

(***************************************************************************)
(* Endpoint objects of the channel layer.  An endpoint class is described  *)
(* by what it declares about copying and by the type of its one data       *)
(* member; ep.objs gives every object of the class its state: "none" (not  *)
(* constructed), "bound" (holds the queue) or "empty" (moved from).        *)
(***************************************************************************)
EndpointClasses ==
    { \* include/eph_channel/itc_channel.hpp: copy operations `= delete`
      [name |-> "eph_channel itc::Sender", copy |-> "deleted",
       member |-> "shared_ptr"],
      [name |-> "eph_channel itc::Receiver", copy |-> "deleted",
       member |-> "shared_ptr"],
      \* include/eph/channel/itc.hpp: no copy or move operation declared
      [name |-> "eph itc::Sender", copy |-> "implicit",
       member |-> "shared_ptr"],
      [name |-> "eph itc::Receiver", copy |-> "implicit",
       member |-> "shared_ptr"],
      [name |-> "eph itc::Publisher", copy |-> "implicit",
       member |-> "shared_ptr"],
      [name |-> "eph itc::Subscriber", copy |-> "implicit",
       member |-> "shared_ptr"],
      \* include/eph/channel/ipc.hpp: the member is a SharedMemory
      [name |-> "eph ipc::Sender", copy |-> "implicit",
       member |-> "SharedMemory"],
      [name |-> "eph ipc::Receiver", copy |-> "implicit",
       member |-> "SharedMemory"],
      \* include/eph_channel/snapshot_channel.hpp: Publisher<T, Backend>
      [name |-> "snapshot::itc::Publisher", copy |-> "implicit",
       member |-> "shared_ptr"],
      [name |-> "snapshot::itc::Subscriber", copy |-> "implicit",
       member |-> "shared_ptr"],
      [name |-> "snapshot::ipc::Publisher", copy |-> "implicit",
       member |-> "SharedMemory"],
      [name |-> "snapshot::ipc::Subscriber", copy |-> "implicit",
       member |-> "SharedMemory"] }

Objects == 1 .. MaxObjects

\* std::shared_ptr has copy operations; SharedMemory declares them deleted
MemberCopyable(member) == member = "shared_ptr"

\* a class has copy operations unless it declares them deleted or a member
\* has none (the implicit ones are then defined as deleted)
Copyable(class) == class.copy # "deleted" /\ MemberCopyable(class.member)

\* the factory returns one endpoint of the class
EndpointInitOf(class) ==
    ep = [class |-> class,
          objs |-> [o \in Objects |-> IF o = 1 THEN "bound" ELSE "none"]]

EndpointInit ==
    EndpointInitOf([name |-> "eph_channel itc::Sender", copy |-> "deleted",
                    member |-> "shared_ptr"])

\* Endpoint b(std::move(a)) and b = std::move(a): b takes a's member, a's
\* member is left empty
MoveEndpoint(a, b) ==
    /\ a # b
    /\ ep.objs[a] # "none"
    /\ ep' = [ep EXCEPT !.objs[b] = ep.objs[a], !.objs[a] = "empty"]
    /\ UNCHANGED << qvars, rvars, svars, cvars, obs, eq, sz, dvars >>

\* Endpoint b(a) and b = a: compiles only for a class with copy operations
CopyEndpoint(a, b) ==
    /\ a # b
    /\ ep.objs[a] # "none"
    /\ Copyable(ep.class)
    /\ ep' = [ep EXCEPT !.objs[b] = ep.objs[a]]
    /\ UNCHANGED << qvars, rvars, svars, cvars, obs, eq, sz, dvars >>

\* the destructor of an endpoint object
DestroyEndpoint(a) ==
    /\ ep.objs[a] # "none"
    /\ ep' = [ep EXCEPT !.objs[a] = "none"]
    /\ UNCHANGED << qvars, rvars, svars, cvars, obs, eq, sz, dvars >>

EndpointNext ==
    \/ \E a \in Objects, b \in Objects : MoveEndpoint(a, b)
    \/ \E a \in Objects, b \in Objects : CopyEndpoint(a, b)
    \/ \E a \in Objects : DestroyEndpoint(a)

(***************************************************************************)
(* Sizes of a SharedMemory<T> segment.  sz.T gives sizeof(T) and           *)
(* alignof(T) of the payload type, sz.huge is use_huge_pages; the Owner    *)
(* constructor computes map_size, sizes the file with ftruncate and maps   *)
(* map_size bytes.                                                         *)
(***************************************************************************)
HUGE_PAGE_SIZE == 2 * 1024 * 1024
PAGE_SIZE == 4096

\* alignof(T)
PayloadAligns == {8, CACHE_LINE_SIZE, 2 * CACHE_LINE_SIZE}

\* sizeof(T): the multiples of alignof(T) next to the powers of two up to
\* 2^MaxSizeLog
PayloadSizes(a) ==
    {s \in UNION {{2 ^ k - a, 2 ^ k, 2 ^ k + a} : k \in 3 .. MaxSizeLog} :
        s > 0 /\ s % a = 0}

PayloadTypes ==
    UNION {{[size |-> s, align |-> a] : s \in PayloadSizes(a)} :
              a \in PayloadAligns}

\* align_up<Alignment>(size): (size + Alignment - 1) & ~(Alignment - 1)
align_up(Alignment, size) ==
    (size + Alignment - 1) - BitAnd(size + Alignment - 1, Alignment - 1)

\* Align<T>: alignof(T) > CACHE_LINE_SIZE ? alignof(T) : CACHE_LINE_SIZE
Align(T) == IF T.align > CACHE_LINE_SIZE THEN T.align ELSE CACHE_LINE_SIZE

\* offsetof(Layout, data): the flag takes one byte, data is alignas(Align<T>)
PayloadOffset(T) == Align(T)

\* sizeof(Layout): the end of data, padded to the alignment of Layout
SizeofLayout(T) == align_up(Align(T), PayloadOffset(T) + T.size)

\* the constructor's size: `if (use_huge_pages_) raw_size =
\* align_up<HUGE_PAGE_SIZE>(raw_size);`
MapSize_raw(huge, raw_size) == raw_size
MapSize(huge, raw_size) ==
    IF huge THEN align_up(HUGE_PAGE_SIZE, raw_size) ELSE raw_size

SizeInitOf(kind, T, huge) ==
    sz = [kind |-> kind, T |-> T, huge |-> huge, pc |-> "new",
          map_size |-> 0, st_size |-> 0, length |-> 0]

SizeInit == SizeInitOf("core", [size |-> 8, align |-> 8], FALSE)

\* SharedMemory::SharedMemory, lines 167-170 (open_and_map, lines 128-135)
SizeCompute ==
    /\ sz.pc = "new"
    /\ sz' = [sz EXCEPT !.map_size = MapSize(sz.huge, SizeofLayout(sz.T)),
                        !.pc = "truncate"]
    /\ UNCHANGED << qvars, rvars, svars, cvars, obs, eq, ep, dvars >>

\* ::ftruncate(fd, map_size)
SizeTruncate ==
    /\ sz.pc = "truncate"
    /\ sz' = [sz EXCEPT !.st_size = sz.map_size, !.pc = "mmap"]
    /\ UNCHANGED << qvars, rvars, svars, cvars, obs, eq, ep, dvars >>

\* ::mmap(nullptr, map_size, ...)
SizeMmap ==
    /\ sz.pc = "mmap"
    /\ sz' = [sz EXCEPT !.length = sz.map_size, !.pc = "mapped"]
    /\ UNCHANGED << qvars, rvars, svars, cvars, obs, eq, ep, dvars >>

SizeNext ==
    \/ SizeCompute
    \/ SizeTruncate
    \/ SizeMmap

(***************************************************************************)
(* BoundedQueue::size(), empty() and full() called by a thread of its own  *)
(* while the producer and the consumer run.  size_t arithmetic wraps; the  *)
(* model gives size_t CounterBits bits.                                    *)
(***************************************************************************)
StatusOps == {"size", "empty", "full"}

\* unsigned subtraction: tail - head modulo 2^CounterBits
SizeT(x) == x % (2 ^ CounterBits)

IdleObserver == [op |-> "none", pc |-> "idle", tail |-> 0, size |-> 0,
                 ret |-> FALSE]

ObsInit == obs = IdleObserver

\* size(), line 276: tail = producer_.tail_.load(relaxed)
SizeLoadTail ==
    /\ obs.pc = "idle"
    /\ \E op \in StatusOps :
           obs' = [IdleObserver EXCEPT !.op = op, !.pc = "load_head",
                                       !.tail = tail_]
    /\ UNCHANGED << qvars, rvars, svars, cvars, eq, sz, ep, dvars >>

\* size(), lines 277-278: head = consumer_.head_.load(relaxed); return
\* tail - head.  empty(): size() == 0; full(): size() >= Capacity
SizeLoadHead ==
    /\ obs.pc = "load_head"
    /\ LET size == SizeT(obs.tail - head_)
       IN  obs' = [obs EXCEPT !.pc = "idle", !.size = size,
                              !.ret = CASE obs.op = "empty" -> size = 0
                                        [] obs.op = "full" -> size >= Capacity
                                        [] OTHER -> FALSE]
    /\ UNCHANGED << qvars, rvars, svars, cvars, eq, sz, ep, dvars >>

QueueObsNext ==
    \/ TryProduceLoadTail
    \/ TryProduceLoadHead
    \/ TryProduceWrite
    \/ TryProducePublish
    \/ TryConsumeLoadHead
    \/ TryConsumeLoadTail
    \/ TryConsumeVisit
    \/ TryConsumeCommit
    \/ SizeLoadTail
    \/ SizeLoadHead

(***************************************************************************)
(* The shadow-index BoundedQueue (eq.bq) and the plain RingBuffer (eq.pl)  *)
(* receive the same sequence of completed try_push / try_pop calls; a      *)
(* completed call is one step, and eq.last holds what the two returned.    *)
(***************************************************************************)
\* the head or tail the slow path continues with: the value just loaded
Reloaded_stale(fresh, shadow) == shadow
Reloaded(fresh, shadow) == fresh

\* BoundedQueue::try_produce, lines 86-112, as one completed call
BQTryPush(q, v) ==
    LET tail == q.tail_
        fast == ~IsFull(tail, q.shadow_head_)
        head == IF fast THEN q.shadow_head_
                        ELSE Reloaded(q.head_, q.shadow_head_)
    IN  IF IsFull(tail, head)
           THEN [q |-> [q EXCEPT !.shadow_head_ = head], ret |-> FALSE]
           ELSE [q |-> [q EXCEPT !.shadow_head_ = head,
                                 !.buffer_[ProducerSlot(tail)] = v,
                                 !.tail_ = tail + 1],
                 ret |-> TRUE]

\* BoundedQueue::try_consume, lines 195-216, as one completed call
BQTryPop(q) ==
    LET head == q.head_
        fast == ~IsEmpty(head, q.shadow_tail_)
        tail == IF fast THEN q.shadow_tail_
                        ELSE Reloaded(q.tail_, q.shadow_tail_)
    IN  IF IsEmpty(head, tail)
           THEN [q |-> [q EXCEPT !.shadow_tail_ = tail], ret |-> FALSE,
                 out |-> 0]
           ELSE [q |-> [q EXCEPT !.shadow_tail_ = tail, !.head_ = head + 1],
                 ret |-> TRUE, out |-> q.buffer_[ConsumerSlot(head)]]

\* RingBuffer::raw_produce, lines 52-63, as one completed call
RawProduce(q, v) ==
    IF IsFull(q.tail_, q.head_)
       THEN [q |-> q, ret |-> FALSE]
       ELSE [q |-> [q EXCEPT !.buffer_[ProducerSlot(q.tail_)] = v,
                             !.tail_ = q.tail_ + 1],
             ret |-> TRUE]

\* RingBuffer::raw_consume, lines 67-77, as one completed call
RawConsume(q) ==
    IF IsEmpty(q.head_, q.tail_)
       THEN [q |-> q, ret |-> FALSE, out |-> 0]
       ELSE [q |-> [q EXCEPT !.head_ = q.head_ + 1], ret |-> TRUE,
             out |-> q.buffer_[ConsumerSlot(q.head_)]]

\* the elements a queue holds, oldest first
Contents(q) ==
    [i \in 1 .. (q.tail_ - q.head_) |-> q.buffer_[ConsumerSlot(q.head_ + i - 1)]]

EquivInit ==
    eq = [bq |-> [head_ |-> 0, tail_ |-> 0, shadow_head_ |-> 0,
                  shadow_tail_ |-> 0,
                  buffer_ |-> [i \in 0 .. Capacity - 1 |-> 0]],
          pl |-> [head_ |-> 0, tail_ |-> 0,
                  buffer_ |-> [i \in 0 .. Capacity - 1 |-> 0]],
          last |-> [op |-> "none", bq_ret |-> FALSE, pl_ret |-> FALSE,
                    bq_out |-> 0, pl_out |-> 0]]

\* the producer completes try_push(v) on both queues
EquivTryPush ==
    /\ eq.pl.tail_ < MaxPush
    /\ \E v \in Values :
           LET b == BQTryPush(eq.bq, v)
               p == RawProduce(eq.pl, v)
           IN  eq' = [bq |-> b.q, pl |-> p.q,
                      last |-> [op |-> "push", bq_ret |-> b.ret,
                                pl_ret |-> p.ret, bq_out |-> 0,
                                pl_out |-> 0]]
    /\ UNCHANGED << qvars, rvars, svars, cvars, obs, sz, ep, dvars >>

\* the consumer completes try_pop(out) on both queues
EquivTryPop ==
    /\ LET b == BQTryPop(eq.bq)
           p == RawConsume(eq.pl)
       IN  eq' = [bq |-> b.q, pl |-> p.q,
                  last |-> [op |-> "pop", bq_ret |-> b.ret, pl_ret |-> p.ret,
                            bq_out |-> b.out, pl_out |-> p.out]]
    /\ UNCHANGED << qvars, rvars, svars, cvars, obs, sz, ep, dvars >>

EquivNext ==
    \/ EquivTryPush
    \/ EquivTryPop

(***************************************************************************)
(* A BoundedQueue whose head_ and tail_ are words of WordBits bits, so that *)
(* they overflow within a run.  A completed try_push / try_pop is one step. *)
(* wq.pushed and wq.popped count the successful calls, wq.sh and wq.st are  *)
(* the values these counts had when the shadows were loaded; push number k  *)
(* stores the value k.                                                      *)
(***************************************************************************)
\* size_t arithmetic: the result modulo 2^w
Word(x) == x % (2 ^ WordBits)

\* successful pushes explored: past the overflow of tail_
MaxWordPush == 2 ^ WordBits + 2 * Capacity

\* `tail - head >= Capacity` in size_t
WordIsFull_cmp(tail, head) == tail >= Word(head + Capacity)
WordIsFull(tail, head) == Word(tail - head) >= Capacity

\* BoundedQueue::try_produce, lines 86-112, as one completed call
WordTryPush(q) ==
    LET tail == q.tail_
        fast == ~WordIsFull(tail, q.shadow_head_)
        head == IF fast THEN q.shadow_head_ ELSE q.head_
        sh == IF fast THEN q.sh ELSE q.popped
    IN  IF WordIsFull(tail, head)
           THEN [q EXCEPT !.shadow_head_ = head, !.sh = sh,
                          !.last = [op |-> "push", ret |-> FALSE, out |-> 0]]
           ELSE [q EXCEPT !.shadow_head_ = head, !.sh = sh,
                          !.buffer_[ProducerSlot(tail)] = q.pushed + 1,
                          !.tail_ = Word(tail + 1),
                          !.pushed = q.pushed + 1,
                          !.last = [op |-> "push", ret |-> TRUE, out |-> 0]]

\* BoundedQueue::try_consume, lines 195-216, as one completed call
WordTryPop(q) ==
    LET head == q.head_
        fast == ~IsEmpty(head, q.shadow_tail_)
        tail == IF fast THEN q.shadow_tail_ ELSE q.tail_
        st == IF fast THEN q.st ELSE q.pushed
    IN  IF IsEmpty(head, tail)
           THEN [q EXCEPT !.shadow_tail_ = tail, !.st = st,
                          !.last = [op |-> "pop", ret |-> FALSE, out |-> 0]]
           ELSE [q EXCEPT !.shadow_tail_ = tail, !.st = st,
                          !.head_ = Word(head + 1),
                          !.popped = q.popped + 1,
                          !.last = [op |-> "pop", ret |-> TRUE,
                                    out |-> q.buffer_[ConsumerSlot(head)]]]

WordInit ==
    wq = [head_ |-> 0, tail_ |-> 0, shadow_head_ |-> 0, shadow_tail_ |-> 0,
          buffer_ |-> [i \in 0 .. Capacity - 1 |-> 0],
          pushed |-> 0, popped |-> 0, sh |-> 0, st |-> 0,
          last |-> [op |-> "none", ret |-> FALSE, out |-> 0]]

\* the producer completes a try_push
WordPush ==
    /\ wq.pushed < MaxWordPush
    /\ wq' = WordTryPush(wq)
    /\ UNCHANGED << qvars, rvars, svars, cvars, ovars, dx >>

\* the consumer completes a try_pop
WordPop ==
    /\ wq' = WordTryPop(wq)
    /\ UNCHANGED << qvars, rvars, svars, cvars, ovars, dx >>

WordNext ==
    \/ WordPush
    \/ WordPop

(***************************************************************************)
(* Duplex channel of include/shm_channel: the client's requests travel on  *)
(* p2c, the server's responses on c2p; both are plain RingBuffers.         *)
(* dx.kind selects the shm::ipc or the shm::itc endpoints.  dx.srv is the   *)
(* server thread inside DuplexReceiver::try_receive_send; dx.sent,          *)
(* dx.taken and dx.placed count the requests sent, the requests removed by *)
(* the server and the responses it placed.                                 *)
(***************************************************************************)
DuplexKinds == {"ipc", "itc"}

\* the handler the server is given
handler(request) == request + NumValues

NewRing == [head_ |-> 0, tail_ |-> 0,
            buffer_ |-> [i \in 0 .. Capacity - 1 |-> 0]]

IdleServer == [pc |-> "idle", request |-> 0, ret |-> "none", got |-> FALSE]

DuplexInitOf(kind) ==
    dx = [kind |-> kind, p2c |-> NewRing, c2p |-> NewRing,
          srv |-> IdleServer, sent |-> 0, taken |-> 0, placed |-> 0]

DuplexInit == DuplexInitOf("itc")

\* DuplexSender::try_send_request: p2c.try_push(req)
ClientTrySendRequest ==
    /\ dx.sent < MaxRequests
    /\ \E req \in Values :
           LET p == RawProduce(dx.p2c, req)
           IN  dx' = [dx EXCEPT !.p2c = p.q,
                                !.sent = IF p.ret THEN @ + 1 ELSE @]
    /\ UNCHANGED << qvars, rvars, svars, cvars, ovars, wq >>

\* DuplexSender::try_receive_response: c2p.try_pop()
ClientTryReceiveResponse ==
    /\ dx' = [dx EXCEPT !.c2p = RawConsume(dx.c2p).q]
    /\ UNCHANGED << qvars, rvars, svars, cvars, ovars, wq >>

\* try_receive_send, lines 133-134 (ipc) and 265-268 (itc): p2c.try_pop;
\* no request: return false
ServerTryPop ==
    /\ dx.srv.pc = "idle"
    /\ LET c == RawConsume(dx.p2c)
       IN  IF c.ret
              THEN dx' = [dx EXCEPT !.p2c = c.q,
                                    !.taken = @ + 1,
                                    !.srv = [pc |-> "respond",
                                             request |-> c.out,
                                             ret |-> "none", got |-> TRUE]]
              ELSE dx' = [dx EXCEPT !.p2c = c.q,
                                    !.srv = [pc |-> "idle",
                                             request |-> dx.srv.request,
                                             ret |-> "false", got |-> FALSE]]
    /\ UNCHANGED << qvars, rvars, svars, cvars, ovars, wq >>

\* try_receive_send, lines 135-136 (ipc): response = handler(request);
\* return c2p.try_push(response)
ServerTryPushResponse ==
    /\ dx.srv.pc = "respond"
    /\ dx.kind = "ipc"
    /\ LET p == RawProduce(dx.c2p, handler(dx.srv.request))
       IN  dx' = [dx EXCEPT !.c2p = p.q,
                            !.placed = IF p.ret THEN @ + 1 ELSE @,
                            !.srv.pc = "idle",
                            !.srv.ret = IF p.ret THEN "true" ELSE "false"]
    /\ UNCHANGED << qvars, rvars, svars, cvars, ovars, wq >>

\* try_receive_send, lines 269-271 (itc): response = handler(request);
\* c2p.push(response) spins until the response is in; return true
ServerPushResponse ==
    /\ dx.srv.pc = "respond"
    /\ dx.kind = "itc"
    /\ LET p == RawProduce(dx.c2p, handler(dx.srv.request))
       IN  /\ p.ret
           /\ dx' = [dx EXCEPT !.c2p = p.q,
                                !.placed = @ + 1,
                                !.srv.pc = "idle",
                                !.srv.ret = "true"]
    /\ UNCHANGED << qvars, rvars, svars, cvars, ovars, wq >>

DuplexNext ==
    \/ ClientTrySendRequest
    \/ ClientTryReceiveResponse
    \/ ServerTryPop
    \/ ServerTryPushResponse
    \/ ServerPushResponse

ExtraInit ==
    /\ ChanInit
    /\ ObsInit
    /\ EquivInit
    /\ SizeInit
    /\ EndpointInit
    /\ WordInit
    /\ DuplexInit

(***************************************************************************)
(* Specifications: one per primitive; the other primitives stay in their   *)
(* freshly constructed state.                                              *)
(***************************************************************************)
InitQueue ==
    /\ QueueInit
    /\ RingInitOf("single")
    /\ ShmInitOf("core", "none")
    /\ ExtraInit

SpecQueue == InitQueue /\ [][QueueNext]_vars

\* the producer thread loops in push / produce / emplace, the consumer thread
\* in pop / consume: each keeps calling try_produce / try_consume, and the
\* scheduler lets both threads run
ProducerNext ==
    \/ TryProduceLoadTail
    \/ TryProduceLoadHead
    \/ TryProduceWrite
    \/ TryProducePublish

ConsumerNext ==
    \/ TryConsumeLoadHead
    \/ TryConsumeLoadTail
    \/ TryConsumeVisit
    \/ TryConsumeCommit

SpecQueueFair ==
    /\ InitQueue
    /\ [][QueueNext]_vars
    /\ WF_vars(ProducerNext)
    /\ WF_vars(ConsumerNext)

InitRing ==
    /\ QueueInit
    /\ RingInit
    /\ ShmInitOf("core", "none")
    /\ ExtraInit

SpecRing == InitRing /\ [][RingNext]_vars

\* the writer completes every write it begins, and the reader's thread
\* loops in pop_latest / read / load: it keeps calling the try read
SpecRingFair ==
    /\ InitRing
    /\ [][RingNext]_vars
    /\ WF_vars(WriterNext)
    /\ WF_vars(\E r \in Readers : ReaderNext(r))

\* a BoundedQueue and a RingBuffer share no state: a run exercises the
\* threads of one of them while the other stays as constructed
RolesNext ==
    \/ RingInitOf(ringKind) /\ ProducerNext
    \/ RingInitOf(ringKind) /\ ConsumerNext
    \/ QueueInit /\ WriterNext
    \/ QueueInit /\ \E r \in Readers : ReaderNext(r)

SpecRoles == InitRing /\ [][RolesNext]_vars

InitShm ==
    /\ QueueInit
    /\ RingInitOf("single")
    /\ ShmInit
    /\ ExtraInit

InitChan ==
    /\ QueueInit
    /\ RingInitOf("single")
    /\ ShmInitOf("core", "none")
    /\ ExtraInit

SpecChan == InitChan /\ [][ChanNext]_vars

SpecQueueObs == InitQueue /\ [][QueueObsNext]_vars

SpecEquiv == InitQueue /\ [][EquivNext]_vars

SpecWord == InitQueue /\ [][WordNext]_vars

InitDuplex ==
    /\ QueueInit
    /\ RingInitOf("single")
    /\ ShmInitOf("core", "none")
    /\ ChanInit
    /\ ObsInit
    /\ EquivInit
    /\ SizeInit
    /\ EndpointInit
    /\ WordInit
    /\ \E kind \in DuplexKinds : DuplexInitOf(kind)

SpecDuplex == InitDuplex /\ [][DuplexNext]_vars

InitEndpoint ==
    /\ QueueInit
    /\ RingInitOf("single")
    /\ ShmInitOf("core", "none")
    /\ ChanInit
    /\ ObsInit
    /\ EquivInit
    /\ SizeInit
    /\ WordInit
    /\ DuplexInit
    /\ \E class \in EndpointClasses : EndpointInitOf(class)

SpecEndpoint == InitEndpoint /\ [][EndpointNext]_vars

InitSize ==
    /\ QueueInit
    /\ RingInitOf("single")
    /\ ShmInitOf("core", "none")
    /\ ChanInit
    /\ ObsInit
    /\ EquivInit
    /\ EndpointInit
    /\ WordInit
    /\ DuplexInit
    /\ \E kind \in ShmKinds, T \in PayloadTypes, huge \in BOOLEAN :
           SizeInitOf(kind, T, huge)

SpecSize == InitSize /\ [][SizeNext]_vars

SpecShm == InitShm /\ [][ShmNext]_vars

\* both processes keep running their constructors; what the callers do with
\* a finished handle (move, destroy, construct again) is up to them
SpecShmFair ==
    /\ InitShm
    /\ [][ShmNext]_vars
    /\ WF_vars(OwnerUnlink \/ OwnerOpen \/ OwnerTruncate \/ OwnerMmap
                   \/ OwnerThrows \/ OwnerConstruct \/ OwnerStoreInit)
    /\ WF_vars(UserOpen \/ UserFstat \/ UserMmap \/ UserWaitInit)

(***************************************************************************)
(* BoundedQueue properties                                                 *)
(***************************************************************************)

\* C1: the k-th successful consume returns the value of the k-th successful
\* produce: the consumed values are always a prefix of the produced values
\* (nothing lost, duplicated or reordered).
C1_Fifo ==
    /\ Len(popped) <= Len(pushed)
    /\ \A k \in 1 .. Len(popped) : popped[k] = pushed[k]

\* C1 witness: more values than the capacity went through the queue, with
\* different values among them, so the indices wrapped around.
C1_Witness ==
    /\ Len(popped) > Capacity
    /\ \E j, k \in 1 .. Len(popped) : popped[j] # popped[k]

\* C2: try_produce reports full exactly when Capacity elements are queued at
\* the moment it decides, and goes on to write only when fewer are queued.
C2_FullIff ==
    /\ p_last.ret = "full" => p_last.size = Capacity
    /\ p_last.ret = "ok" => p_last.size < Capacity

\* C2 witness: a produce was refused on a full queue after the indices wrapped,
\* and the consumer has since drained it while the producer's shadow is stale.
C2_Witness ==
    /\ p_last.ret = "full"
    /\ tail_ > Capacity
    /\ head_ = tail_
    /\ shadow_head_ < head_

\* C3: try_consume reports empty exactly when no element is queued at the
\* moment it decides, and goes on to read only when one is queued.
C3_EmptyIff ==
    /\ c_last.ret = "empty" => c_last.size = 0
    /\ c_last.ret = "ok" => c_last.size > 0

\* C3 witness: a consume was refused on an empty queue after elements went
\* through, and the producer has since published while the shadow is stale.
C3_Witness ==
    /\ c_last.ret = "empty"
    /\ Len(popped) >= 1
    /\ tail_ > head_
    /\ shadow_tail_ < tail_

\* C4: the shared counters always satisfy head <= tail and tail - head <= N.
C4_IndexBounds ==
    /\ head_ <= tail_
    /\ tail_ - head_ <= Capacity

\* C4 witness: the queue is full after the consumer has already advanced.
C4_Witness ==
    /\ tail_ - head_ = Capacity
    /\ head_ >= 1

\* the physical slots of the published, not yet consumed elements
UnconsumedSlots == { ConsumerSlot(i) : i \in head_ .. tail_ - 1 }

\* C12: the producer's write visitor and the consumer's read visitor never
\* work on the same physical slot at the same time: the slot the producer
\* writes is not one of the unconsumed slots, and the slot the consumer reads
\* is one whose write was published by a tail store.
C12_SlotOwnership ==
    /\ p_pc = "write" => ProducerSlot(p_tail) \notin UnconsumedSlots
    /\ c_pc = "visit" =>
           /\ c_head \in head_ .. tail_ - 1
           /\ ConsumerSlot(c_head) \in UnconsumedSlots
    /\ (p_pc = "write" /\ c_pc = "visit") =>
           ProducerSlot(p_tail) # ConsumerSlot(c_head)

\* C12 witness: after the indices wrapped both visitors are at work at the
\* same time, on the two different slots.
C12_Witness ==
    /\ p_pc = "write"
    /\ c_pc = "visit"
    /\ p_tail >= Capacity
    /\ p_tail - c_head < Capacity

\* C25: a producer that pushes MaxPush values with the blocking push and a
\* consumer that pops with the blocking pop, both scheduled fairly, reach and
\* keep the state where all MaxPush values were pushed and popped and the
\* queue is empty; a push returns only with a free slot at its tail and a
\* pop only with a published element at its head.
C25_BlockingTerminates ==
    /\ <>[](Len(pushed) = MaxPush /\ popped = pushed /\ head_ = tail_)
    /\ [][TryProducePublish => p_tail - head_ < Capacity]_vars
    /\ [][TryConsumeCommit => c_head < tail_]_vars
    /\ [](p_last.ret = "full" => p_pc \in {"idle", "load_head"})
    /\ [](c_last.ret = "empty" => c_pc \in {"idle", "load_tail"})

C25_Witness ==
    /\ Len(pushed) = MaxPush
    /\ popped = pushed
    /\ head_ = tail_
    /\ MaxPush > Capacity
    /\ c_last.ret = "empty"

\* C31: the shadow indices lag the true counters inside the valid window:
\* shadow_head <= head <= shadow_tail <= tail and tail - shadow_head <= N in
\* every reachable state, and no step decreases a shadow index.
C31_ShadowWindow ==
    /\ [](/\ shadow_head_ <= head_
          /\ head_ <= shadow_tail_
          /\ shadow_tail_ <= tail_
          /\ tail_ - shadow_head_ <= Capacity)
    /\ [][/\ shadow_head_' >= shadow_head_
          /\ shadow_tail_' >= shadow_tail_]_vars

\* C31 witness: after the indices wrapped and both shadows were refreshed,
\* both lag their counters and the producer's view of the queue is full.
C31_Witness ==
    /\ tail_ > Capacity
    /\ 0 < shadow_head_ /\ shadow_head_ < head_
    /\ 0 < shadow_tail_ /\ shadow_tail_ < tail_
    /\ tail_ - shadow_head_ = Capacity

\* C34: a try_produce that returns false has not invoked the write visitor
\* and none of its steps changed tail, head or a buffer slot (it may refresh
\* the producer's shadow head); a try_consume that returns false has not
\* invoked the visitor and none of its steps changed head, tail, the buffer
\* or the caller's output variable (it may refresh the shadow tail).
C34_FailureFrame ==
    /\ [][TryProduceWrite => p_last.ret = "ok"]_vars
    /\ [][TryConsumeVisit => c_last.ret = "ok"]_vars
    /\ [][(\/ TryProduceLoadTail /\ p_pc' = "load_head"
           \/ TryProduceLoadHead /\ p_last'.ret = "full") =>
              /\ p_pc' \in {"load_head", "idle"}
              /\ UNCHANGED << tail_, head_, buffer_, shadow_tail_, c_out,
                              pushed, popped >>]_vars
    /\ [][(\/ TryConsumeLoadHead /\ c_pc' = "load_tail"
           \/ TryConsumeLoadTail /\ c_last'.ret = "empty") =>
              /\ c_pc' \in {"load_tail", "idle"}
              /\ UNCHANGED << head_, tail_, buffer_, shadow_head_, c_out,
                              pushed, popped >>]_vars

\* C34 witness: the last try_produce was refused after refreshing the shadow
\* head, and the last try_consume was refused with the caller's variable
\* still holding the value of an earlier pop.
C34_Witness ==
    /\ p_pc = "idle" /\ p_last.ret = "full" /\ shadow_head_ > 0
    /\ c_pc = "idle" /\ c_last.ret = "empty" /\ c_out # 0
    /\ c_out = popped[Len(popped)]

\* C35: every shared variable has one writing role.  Producer steps never
\* change head or the consumer's shadow tail, consumer steps never change
\* tail or the producer's shadow head, reader steps never change a sequence,
\* global_index, writer_index or a payload; a step that changes tail is a
\* producer step, one that changes head a consumer step, one that changes a
\* sequence or an index a writer step.
C35_SingleWriterRoles ==
    /\ [][ProducerNext => UNCHANGED << head_, shadow_tail_ >>]_vars
    /\ [][ConsumerNext => UNCHANGED << tail_, shadow_head_ >>]_vars
    /\ [][(\E r \in Readers : ReaderNext(r)) =>
              UNCHANGED << seq, global_index_, writer_index_, data_ >>]_vars
    /\ [][tail_' # tail_ => ProducerNext]_vars
    /\ [][head_' # head_ => ConsumerNext]_vars
    /\ [][(seq' # seq \/ global_index_' # global_index_
              \/ writer_index_' # writer_index_) => WriterNext]_vars

\* C35 witness: the producer is inside its write visitor and the consumer
\* inside its read visitor, after each has published and each has refreshed
\* its shadow of the other's counter.
C35_Witness ==
    /\ p_pc = "write" /\ c_pc = "visit"
    /\ shadow_head_ > 0 /\ shadow_tail_ > shadow_head_
    /\ tail_ > Capacity

\* C36: with counters that overflow and wrap modulo 2^w, tail - head and
\* tail - shadow_head in wrapping arithmetic equal the true numbers of
\* elements, a push is refused exactly on a full queue and a pop exactly on
\* an empty one, the k-th pop returns the k-th pushed value, and
\* counter & (N - 1) gives push number k + 1 the slot k mod N, so the slot
\* order continues across the wrap.
C36_WrapAround ==
    /\ wq.tail_ = Word(wq.pushed)
    /\ wq.head_ = Word(wq.popped)
    /\ wq.pushed - wq.popped \in 0 .. Capacity
    /\ Word(wq.tail_ - wq.head_) = wq.pushed - wq.popped
    /\ Word(wq.tail_ - wq.shadow_head_) = wq.pushed - wq.sh
    /\ Word(wq.shadow_tail_ - wq.head_) = wq.st - wq.popped
    /\ (wq.last.op = "push" /\ ~wq.last.ret) =>
           wq.pushed - wq.popped = Capacity
    /\ (wq.last.op = "pop" /\ ~wq.last.ret) => wq.pushed = wq.popped
    /\ (wq.last.op = "pop" /\ wq.last.ret) => wq.last.out = wq.popped
    /\ \A k \in wq.popped .. wq.pushed - 1 :
           /\ ProducerSlot(Word(k)) = k % Capacity
           /\ wq.buffer_[ConsumerSlot(Word(k))] = k + 1

\* C36 witness: tail has overflowed and head has not, the queue holds
\* Capacity elements, and the push just made was refused on a shadow head
\* loaded before the overflow.
C36_Witness ==
    /\ wq.pushed >= 2 ^ WordBits
    /\ wq.popped < 2 ^ WordBits
    /\ wq.tail_ < wq.head_
    /\ wq.tail_ < wq.shadow_head_
    /\ wq.pushed - wq.popped = Capacity
    /\ wq.last.op = "push" /\ ~wq.last.ret

\* C29: a call of size() made while the producer and the consumer run
\* returns a value from 0 to Capacity, so full() answers true only with
\* size = Capacity and empty() only with size = 0.
C29_SizeInRange ==
    (obs.op # "none" /\ obs.pc = "idle") =>
        /\ obs.size \in 0 .. Capacity
        /\ obs.op = "full" => (obs.ret <=> obs.size = Capacity)
        /\ obs.op = "empty" => (obs.ret <=> obs.size = 0)

\* C30: after every sequence of completed try_push / try_pop calls the
\* BoundedQueue and the plain RingBuffer have returned the same result and
\* the same popped value for the last call and hold the same elements.
C30_Equivalent ==
    /\ eq.last.bq_ret = eq.last.pl_ret
    /\ eq.last.bq_out = eq.last.pl_out
    /\ eq.bq.head_ = eq.pl.head_
    /\ eq.bq.tail_ = eq.pl.tail_
    /\ Contents(eq.bq) = Contents(eq.pl)

C30_Witness ==
    /\ eq.last.op = "pop"
    /\ eq.last.bq_ret
    /\ eq.last.pl_ret
    /\ eq.bq.tail_ > Capacity
    /\ eq.bq.shadow_head_ < eq.bq.head_
    /\ eq.bq.shadow_tail_ < eq.bq.tail_

(***************************************************************************)
(* SeqLock / RingBuffer properties                                         *)
(***************************************************************************)
StepsPerWrite == IF ringKind = "single" THEN 4 ELSE 5

\* C5: a try read that reports success delivers a payload whose fields all
\* come from one write that has finished its payload (or the initial value):
\* never a mix of two writes.
C5_NoTornRead ==
    \A r \in Readers :
        r_res[r] = "ok" =>
            /\ r_out[r].a = r_out[r].b
            /\ r_out[r].a <= writes_done + (IF w_pc = "publish" THEN 1 ELSE 0)

\* C5 witness: a read succeeded with the payload of a real write although
\* the writer was inside a write during the read.
C5_Witness ==
    \E r \in Readers : r_res[r] = "ok" /\ r_ovOdd[r] /\ r_out[r].a >= 1

\* C6: with N > 1 the write numbers delivered by one reader's successful
\* try reads never decrease.
C6_MonotonicReads ==
    \A r \in Readers : ringKind # "single" => r_hist[r][1] <= r_hist[r][2]

C13_IdleWriterIndex ==
    (w_pc = "idle" /\ ringKind # "single") =>
        /\ writer_index_ = global_index_
        /\ ringKind = "pow2" => global_index_ = writes_done
        /\ seq[SlotOf(global_index_)] % 2 = 0
        /\ seq[SlotOf(global_index_)] = seq_max[SlotOf(global_index_)]

\* C13 witness: the power-of-two ring wrapped and the writer is idle on a
\* slot it has written more than once.
C13_Witness ==
    /\ ringKind = "pow2"
    /\ w_pc = "idle"
    /\ writes_done > RingN
    /\ seq[SlotOf(global_index_)] >= 4

\* the slot the writer is writing, between the odd and the even store
WriterInside(i) ==
    /\ w_pc \in {"write_a", "write_b", "unlock"}
    /\ SlotOf(w_next) = i

\* C14: every step leaves each slot's sequence unchanged or adds one to it;
\* a sequence is odd exactly while the writer is between the start and the
\* end of a write to that slot, and while it is even the slot's payload is
\* one complete write (or the initial value).
C14_SeqParity ==
    /\ [](\A i \in DOMAIN seq :
            /\ seq[i] % 2 = 1 <=> WriterInside(i)
            /\ seq[i] % 2 = 0 =>
                   /\ data_[i].a = data_[i].b
                   /\ data_[i].a <= WriteValue(writes_done))
    /\ [][\A i \in DOMAIN seq : seq'[i] = seq[i] \/ seq'[i] = seq[i] + 1]_vars

\* C14 witness: a slot is being rewritten: its sequence is odd and at least
\* 3 and its payload is half old, half new.
C14_Witness ==
    \E i \in DOMAIN seq :
        /\ seq[i] % 2 = 1
        /\ seq[i] >= 3
        /\ data_[i].a # data_[i].b

\* C15: reading is repeatable and non-destructive: two successive successful
\* reads with no writer step from the start of the first to the end of the
\* second return equal values, and no reader step changes a slot's payload,
\* a sequence or an index.
C15_ReadRepeatable ==
    /\ [](\A r \in Readers :
            r_clk[r].pair = "quiet" =>
                /\ r_hist[r][1] = r_hist[r][2]
                /\ r_res[r] = "ok" =>
                       r_out[r] = [a |-> r_hist[r][1], b |-> r_hist[r][1]])
    /\ [][(\E r \in Readers : ReaderNext(r)) =>
              UNCHANGED << seq, data_, global_index_, writer_index_ >>]_vars

\* C15 witness: after the ring wrapped two successive reads succeeded with no
\* writer step in between and both returned the written value.
C15_Witness ==
    \E r \in Readers :
        /\ r_clk[r].pair = "quiet"
        /\ r_res[r] = "ok"
        /\ r_hist[r][2] > NSlots(ringKind)

\* C26: with a writer that performs MaxWrites writes and completes each, a
\* reader that keeps retrying the try read succeeds again and again, and an
\* attempt is reported as successful (and its copy handed out) only when
\* its first sequence was even and equal to the second.
C26_BlockingReadReturns ==
    /\ \A r \in Readers : []<>(r_pc[r] = "idle" /\ r_res[r] = "ok")
    /\ [][\A r \in Readers :
             (r_pc[r] # "idle" /\ r_pc'[r] = "idle") =>
                 IF r_res'[r] = "ok"
                    THEN /\ r_pc[r] = "seq2"
                         /\ r_seq1[r] % 2 = 0
                         /\ r_seq1[r] = seq[ReaderSlot(r_idx[r])]
                         /\ r_hist'[r] = << r_hist[r][2], r_out[r].a >>
                    ELSE /\ r_res'[r] = "fail"
                         /\ r_hist'[r] = r_hist[r]]_vars

C26_Witness ==
    /\ writes_done = MaxWrites
    /\ w_pc = "idle"
    /\ r_pc["r1"] = "idle"
    /\ r_res["r1"] = "ok"
    /\ r_hist["r1"] = << MaxWrites - 1, MaxWrites >>

\* the number of the last write the writer has started
WritesStarted == writes_done + (IF w_pc = "idle" THEN 0 ELSE 1)

\* C32: a successful read delivers one complete write that is no older than
\* the write published last when the read began (the one global_index
\* designated at the reader's load) and no newer than the last write the
\* writer had started when the read ended.
C32_ReadWindow ==
    /\ [](\A r \in Readers :
            r_res[r] = "ok" =>
                /\ r_out[r].a = r_out[r].b
                /\ r_clk[r].base <= r_out[r].a)
    /\ [][\A r \in Readers :
             (r_pc[r] = "seq2" /\ r_res'[r] = "ok") =>
                 /\ r_out[r].a >= r_clk[r].base
                 /\ r_out[r].a <= WritesStarted]_vars

\* C32 witness: a reader loaded the index after some write was published,
\* the writer then lapped the ring, and the read succeeded with a write newer
\* than the one designated at its start.
C32_Witness ==
    \E r \in Readers :
        /\ ringKind # "single"
        /\ r_res[r] = "ok"
        /\ r_clk[r].base >= 1
        /\ r_out[r].a = r_clk[r].base + NSlots(ringKind)

\* C33: with N > 1 the slot being written is never the slot global_index
\* designates, and a try read fails only if the writer came round to the
\* slot being read: a read during which fewer than N - 1 writes are
\* published, from the load of global_index to the final check, succeeds.
C33_FailsOnlyWhenLapped ==
    ringKind # "single" =>
        /\ \A i \in DOMAIN seq : WriterInside(i) => i # SlotOf(global_index_)
        /\ \A r \in Readers :
               /\ r_res[r] = "fail" =>
                      /\ r_ovSame[r]
                      /\ r_wd[r] - r_clk[r].base >= NSlots(ringKind) - 1
               /\ (r_res[r] # "none"
                      /\ r_wd[r] - r_clk[r].base < NSlots(ringKind) - 1) =>
                      r_res[r] = "ok"

\* C33 witness: a read succeeded although a write was published and another
\* one begun while it ran, fewer than N - 1 in all.
C33_Witness ==
    \E r \in Readers :
        /\ ringKind # "single"
        /\ r_res[r] = "ok"
        /\ r_wd[r] - r_clk[r].base = NSlots(ringKind) - 2
        /\ r_wd[r] > r_clk[r].base
        /\ w_pc \in {"write_a", "write_b", "unlock"}
        /\ r_ovOdd[r]

\* C37: with N = 3 the published index is always 0, 1 or 2 and each write
\* advances it by one step of 0 -> 1 -> 2 -> 0, next_slot(c) being
\* (c + 1) mod 3 and the first write going to slot 1; after k >= 1 pushes
\* a read made with the writer idle returns the k-th pushed value.
C37_TripleIndex ==
    /\ [](ringKind = "triple" =>
            /\ global_index_ \in 0 .. 2
            /\ global_index_ = writes_done % 3
            /\ \A c \in 0 .. 2 : next_slot(c) = (c + 1) % 3
            /\ w_pc # "idle" => SlotOf(w_next) = (writes_done + 1) % 3
            /\ \A r \in Readers :
                   (r_res[r] # "none" /\ r_quiet[r] /\ r_wd[r] >= 1) =>
                       /\ r_res[r] = "ok"
                       /\ r_out[r] = [a |-> WriteValue(r_wd[r] - 1),
                                      b |-> WriteValue(r_wd[r] - 1)])
    /\ [][(ringKind = "triple" /\ global_index_' # global_index_) =>
              /\ global_index_' = (global_index_ + 1) % 3
              /\ writes_done' = writes_done + 1]_vars

\* C37 witness: four pushes took the index round 0 -> 1 -> 2 -> 0 -> 1 and a
\* read made afterwards returned the fourth value.
C37_Witness ==
    \E r \in Readers :
        /\ ringKind = "triple"
        /\ writes_done = 4
        /\ global_index_ = 1
        /\ r_res[r] = "ok" /\ r_quiet[r] /\ r_wd[r] = 4
        /\ r_out[r].a = WriteValue(3)

\* C38: after construction and before any write no slot is busy, the
\* published index is 0, every try read succeeds and returns the
\* default-constructed value, so a blocking read returns at its first
\* attempt; with N > 1 this also holds for a read that ends while the first
\* write is in progress.
C38_InitialRead ==
    /\ (writes_done = 0 /\ w_pc = "idle") =>
           /\ \A i \in DOMAIN seq : ~SeqIsOdd(seq[i]) /\ seq[i] = 0
           /\ global_index_ = 0
           /\ \A r \in Readers :
                  /\ r_res[r] # "fail"
                  /\ r_res[r] = "ok" => r_out[r] = [a |-> 0, b |-> 0]
                  /\ ENABLED ReaderNext(r)
    /\ \A r \in Readers :
           (ringKind # "single" /\ r_res[r] # "none" /\ r_wd[r] = 0) =>
               /\ r_res[r] = "ok"
               /\ r_out[r] = [a |-> 0, b |-> 0]

\* C38 witness: a read made on the freshly constructed object has succeeded
\* and another one is already copying, with no write begun.
C38_Witness ==
    \E r \in Readers :
        /\ writes_done = 0 /\ w_pc = "idle"
        /\ r_res[r] = "none"
        /\ r_pc[r] = "seq2"
        /\ r_clk[r].pair = "first"

\* C8: the writer is never disabled by the readers and every write takes the
\* same fixed number of writer steps: a write in progress can always take its
\* next step, an idle writer can always start, and no step is repeated.
C8_WriterWaitFree ==
    /\ w_pc # "idle" => ENABLED WriterNext
    /\ (w_pc = "idle" /\ writes_done < MaxWrites) => ENABLED WriterLock
    /\ w_steps <= StepsPerWrite
    /\ (w_pc = "idle" /\ writes_done > 0) => w_steps = StepsPerWrite

\* C8 witness: the writer is in the middle of writing the very slot a stalled
\* reader is in the middle of copying.
C8_Witness ==
    \E r \in Readers :
        /\ w_pc = "write_b"
        /\ r_pc[r] = "read_b"
        /\ ReaderSlot(r_idx[r]) = SlotOf(w_next)

\* C9 as claimed: a try read fails exactly when the writer was inside a write
\* (some slot locked) at some moment of the read.
C9_FailIffAnyWriteOverlaps ==
    \A r \in Readers :
        r_res[r] # "none" => (r_res[r] = "fail" <=> r_ovOdd[r])

\* C9 amended: a try read fails exactly when the slot it reads was locked at
\* its first sequence load or got locked before its final sequence check; a
\* failed read always overlapped a write, and a read during which the writer
\* is idle throughout succeeds.
C9_FailIffSameSlotWrite ==
    \A r \in Readers :
        r_res[r] # "none" =>
            /\ r_res[r] = "fail" <=> r_ovSame[r]
            /\ r_res[r] = "fail" => r_ovOdd[r]
            /\ r_quiet[r] => r_res[r] = "ok"

\* C9 witness: a read found an even sequence, the writer then locked the same
\* slot, and the final check made the read fail.
C9_Witness ==
    \E r \in Readers :
        /\ r_res[r] = "fail"
        /\ r_seq1[r] % 2 = 0
        /\ r_ovSame[r]
        /\ ringKind # "single"

\* C10: a try read during which the writer performs no step succeeds at once
\* and returns the payload of the last completed write.
C10_QuietReadIsLatest ==
    \A r \in Readers :
        (r_res[r] # "none" /\ r_quiet[r]) =>
            /\ r_res[r] = "ok"
            /\ r_out[r] = [a |-> r_wd[r], b |-> r_wd[r]]

\* C10 witness: after more writes than the ring has slots a reader read with
\* the writer idle and got a result.
C10_Witness ==
    \E r \in Readers :
        /\ r_res[r] = "ok"
        /\ r_quiet[r]
        /\ r_wd[r] > NSlots(ringKind)

(***************************************************************************)
(* SharedMemory properties                                                 *)
(***************************************************************************)

\* C7: a User constructor returns a handle only on a segment whose payload
\* is constructed and whose initialized flag is true; when that segment is
\* the one the Owner is constructing, or no file was left under the name
\* beforehand, the Owner has already stored initialized = true.
C7_UserSeesInitialized ==
    u_pc = "ready" =>
        /\ ino_init[u_layout]
        /\ ino_constructed[u_layout]
        /\ (u_layout = OwnerInode \/ shmStale = "none") => o_pc = "ready"

\* C7 witness: the User mapped the Owner's segment before it was initialized,
\* waited, and then got its handle.
C7_Witness ==
    /\ u_pc = "ready"
    /\ u_layout = OwnerInode
    /\ u_retries >= 1

\* C16: once the handle that holds the Owner's resources is destroyed the
\* name has no file, and a User construction that begins afterwards fails
\* with the open error instead of returning a handle.
C16_NoAttachAfterOwnerDestroyed ==
    /\ o_state = "dead" => fs_path = 0
    /\ u_late => (u_pc = "error" /\ u_err = "open failed")

\* C16 witness: a User that had a handle before constructs again after the
\* Owner handle was destroyed, and fails.
C16_Witness ==
    /\ u_late
    /\ u_err = "open failed"
    /\ u_moves >= 1
    /\ done.unlink = 1

\* C17: no step of a User (construction that succeeds or fails, move,
\* destruction) unlinks the name or runs the payload destructor, and while
\* the Owner handle is alive the name resolves to the Owner's initialized,
\* fully sized file.
C17_UserNeverUnlinks ==
    /\ [](o_state = "alive" =>
            /\ fs_path = OwnerInode
            /\ ino_init[OwnerInode]
            /\ ino_size[OwnerInode] >= ExpectedSize)
    /\ [][UserNext => /\ fs_path' = fs_path
                      /\ done'.unlink = done.unlink
                      /\ done'.dtor = done.dtor]_vars

\* C17 witness: with the Owner alive a User has constructed more than once,
\* moved its handle and dropped it.
C17_Witness ==
    /\ o_state = "alive"
    /\ u_pc = "dropped"
    /\ u_attempts >= 2
    /\ u_moves >= 1

C19_FailedOwnerLeavesNothing ==
    o_pc = "failed" => (fs_path = 0 /\ ~ino_init[OwnerInode])

\* C20: a User that waits for the initialized flag does not wait forever: it
\* leaves the wait loop, with a handle or with the timeout error, within
\* RetryLimit + 1 turns.
C20_WaitTerminates ==
    /\ [](u_retries <= RetryLimit + 1)
    /\ (u_pc = "wait") ~> (u_pc # "wait")

\* C21: while the Owner handle is alive, a User whose construction began
\* after the Owner was constructed and succeeded has mapped the segment the
\* Owner has mapped, also when a stale file had the name before.
C21_SameSegment ==
    (u_pc = "ready" /\ u_began = "alive" /\ o_state = "alive") =>
        /\ u_layout = o_layout
        /\ u_layout = OwnerInode

\* C21 witness: a stale, initialized file had the name, the User's first
\* construction did not give it the Owner's segment, and a construction begun
\* after the Owner was constructed did.
C21_Witness ==
    /\ shmStale = "initialized"
    /\ u_pc = "ready"
    /\ u_began = "alive"
    /\ o_state = "alive"
    /\ u_attempts >= 2

\* C22: the User's fstat step fails with the size-mismatch error exactly when
\* the file it opened is smaller than the layout, at that step and with
\* nothing mapped; a User that goes on to map, wait or return has a file of
\* at least the layout size.
C22_SizeMismatch ==
    /\ [](u_pc \in {"mmap", "wait", "ready"} =>
            ino_size[u_fd] >= ExpectedSize)
    /\ []((u_pc = "error" /\ u_err = "size mismatch") =>
            (u_layout = 0 /\ u_fd = 0 /\ u_retries = 0))
    /\ [][UserFstat =>
            /\ (ino_size[u_fd] < ExpectedSize) <=>
                   (u_pc' = "error" /\ u_err' = "size mismatch")
            /\ (ino_size[u_fd] >= ExpectedSize) <=> (u_pc' = "mmap")
            /\ u_layout' = 0]_vars

\* C22 witness: no stale file existed; the User opened the file the Owner had
\* created and not yet sized, and failed with the size-mismatch error while
\* the Owner was still about to size it.
C22_Witness ==
    /\ shmStale = "none"
    /\ u_pc = "error"
    /\ u_err = "size mismatch"
    /\ o_pc = "truncate"

(***************************************************************************)
(* Channel layer properties                                                *)
(***************************************************************************)

\* a step changes buffer_ only by writing the Sender's element into the
\* slot at tail_, as part of a try_send that found room, and changes tail_
\* only by adding one after such a write
OnlySendWrites ==
    /\ rb'.buffer_ # rb.buffer_ =>
           /\ snd.pc = "write"
           /\ ~IsFull(rb.tail_, rb.head_)
           /\ rb'.buffer_ =
                  [rb.buffer_ EXCEPT ![ProducerSlot(rb.tail_)] = snd.data]
    /\ rb'.tail_ # rb.tail_ =>
           /\ snd.pc = "store"
           /\ rb'.tail_ = rb.tail_ + 1
           /\ snd'.hits = snd.hits + 1

\* C23: send(v, timeout) returns false only after a failed try_send and a
\* reading of the steady clock more than `timeout` past the start (for the
\* deadline overload: a reading at or past the deadline), and it has then
\* stored no tail_ (a slot is written only by a try_send that found room,
\* and tail_ is stored after every such write); it returns true exactly
\* when a try_send of the call succeeded, which happens at most once, and v
\* is then the one element added at the old tail.
C23_SendTimeout ==
    /\ [](snd.op \in {"send_for", "send_until"} =>
            /\ snd.hits <= 1
            /\ (snd.ret = "true") <=> (snd.hits = 1 /\ snd.pc = "idle")
            /\ snd.ret = "true" =>
                   /\ rb.tail_ = snd.tail0 + 1
                   /\ rb.buffer_[ProducerSlot(snd.tail0)] = snd.data
            /\ snd.ret = "false" =>
                   /\ snd.hits = 0
                   /\ rb.tail_ = snd.tail0
                   /\ snd.op = "send_for" => now - snd.start > snd.limit
                   /\ snd.op = "send_until" => now >= snd.limit)
    /\ [][OnlySendWrites]_vars
    /\ [][(snd.ret # "false" /\ snd'.ret = "false"
               /\ snd.op \in {"send_for", "send_until"}) =>
              /\ snd.pc = "check"
              /\ now' = now
              /\ IsFull(snd.tail, rb.head_) \/ rb.head_ > snd.head0]_vars

C23_Witness ==
    /\ snd.op = "send_for"
    /\ snd.ret = "false"
    /\ snd.limit >= 1
    /\ rb.tail_ - rb.head_ = Capacity
    /\ rcv.ret = "true"

\* C24: when no element was consumed since send_batch was entered, the call
\* returns count = min(length, Capacity - size) and has enqueued exactly the
\* first count elements of the range in their order at the old tail; every
\* write of the call puts the next element of the range, the one after the
\* elements already enqueued, into the slot at tail_.
C24_SendBatch ==
    /\ []((snd.op = "send_batch" /\ snd.ret = "count"
               /\ rb.head_ = snd.head0) =>
            LET size == snd.tail0 - snd.head0
                fit == Min(Len(snd.range), Capacity - size)
            IN  /\ snd.count = fit
                /\ snd.hits = fit
                /\ rb.tail_ = snd.tail0 + fit
                /\ \A i \in 1 .. fit :
                       rb.buffer_[ProducerSlot(snd.tail0 + i - 1)]
                           = snd.range[i])
    /\ [][snd.op = "send_batch" =>
              /\ OnlySendWrites
              /\ rb'.buffer_ # rb.buffer_ =>
                     /\ snd.data = snd.range[snd.first]
                     /\ snd.first = snd.hits + 1]_vars

C24_Witness ==
    /\ snd.op = "send_batch"
    /\ snd.ret = "count"
    /\ rb.head_ = snd.head0
    /\ snd.tail0 > snd.head0
    /\ snd.count >= 1
    /\ snd.count < Len(snd.range)

\* C27: at most one object of an endpoint class holds the queue, whatever
\* sequence of constructions, assignments and destructions the program
\* performs on the endpoint the factory returned.
C27_SingleEndpoint ==
    Cardinality({o \in Objects : ep.objs[o] = "bound"}) <= 1

(***************************************************************************)
(* Duplex channel properties                                               *)
(***************************************************************************)

\* C39: try_receive_send returns false only when no request was available,
\* and then leaves both queues as they were; whenever it removes a request
\* it places exactly one response, handler(request), and returns true, with
\* the ipc and with the itc endpoints.
C39_TryReceiveSend ==
    /\ [](dx.srv.pc = "idle" =>
            /\ dx.srv.ret = "false" => ~dx.srv.got
            /\ dx.srv.got => dx.srv.ret = "true"
            /\ dx.taken = dx.placed)
    /\ [][(dx.srv.pc = "idle" /\ dx'.srv.ret = "false"
              /\ dx'.srv # dx.srv) =>
              (dx'.p2c = dx.p2c /\ dx'.c2p = dx.c2p)]_vars
    /\ [][(dx.srv.pc = "respond" /\ dx'.srv.pc = "idle") =>
              /\ dx'.srv.ret = "true"
              /\ dx'.placed = dx.placed + 1
              /\ dx'.c2p.tail_ = dx.c2p.tail_ + 1
              /\ dx'.c2p.buffer_[ProducerSlot(dx.c2p.tail_)]
                     = handler(dx.srv.request)]_vars

(***************************************************************************)
(* SharedMemory size properties                                            *)
(***************************************************************************)

\* the least multiple of unit that is at least n
RoundUp(n, unit) == ((n + unit - 1) \div unit) * unit

\* the backing page unit
PageUnit(huge) == IF huge THEN HUGE_PAGE_SIZE ELSE PAGE_SIZE

====
